---- MODULE Spec2Model ----
(***************************************************************************)
(* loxygen: a tree-walking interpreter for Lox.                            *)
(*                                                                         *)
(* The model follows the pipeline of Lox.run: a source (already parsed to  *)
(* an AST of nodes.py records) is resolved by Resolver, which fills the    *)
(* interpreter's `locals` side table, and then interpreted by Interpreter  *)
(* against a heap of Environment, LoxFunction, LoxClass and LoxInstance    *)
(* objects.  Heap objects are numbered; 0 stands for Python's None where a *)
(* reference is optional.                                                  *)
(***************************************************************************)
EXTENDS Integers, Sequences, FiniteSets, TLC

VARIABLES
    envs,       \* heap of Environment objects: [values, enclosing]
    fns,        \* heap of LoxFunction objects: [declaration, closure, is_initializer]
    classes,    \* heap of LoxClass objects: [name, superclass, methods]
    insts,      \* heap of LoxInstance objects: [cls, fields]
    env,        \* Interpreter.env (index into envs)
    locals,     \* Interpreter.locals: expression key -> depth
    out,        \* lines printed to stdout by the last run
    status,     \* result of the last Lox.run
    pc,         \* where the Lox object is in main/run_file/run_prompt/run
    mode,       \* "file" (run_file) or "prompt" (run_prompt), from main's args
    exit,       \* exit code of the process, -1 while it runs
    nruns,      \* number of Scanner objects created so far
    run,        \* the run in progress: source, statements, next statement
    hist,       \* history of the run in progress (what ran, what was observed)
    occ,        \* history: every (expression, depth) the resolver decided
    op,         \* the last operation applied directly to an object
    resolver,   \* the Resolver object: [scopes, current_function, current_class,
                \* errors, exc], NoNode when there is none
    parser      \* the Parser object p and the statements parse() has so far: [p,
                \* statements], NoNode when there is none

vars == <<envs, fns, classes, insts, env, locals, out, status, pc, mode, exit, nruns,
          run, hist, occ, op, resolver, parser>>

----------------------------------------------------------------------------
(* Bounds of the model.                                                    *)

MaxRuns == 2        \* REPL lines per session
MaxSteps == 20      \* statements + calls executed per run
MaxEnvs == 3        \* environments in the Environment specification
MaxScopes == 2      \* scopes on the stack in the Resolver specification
MaxErrors == 2      \* errors recorded in the Resolver specification

----------------------------------------------------------------------------
(* Values (runtime.LoxObject).                                             *)

Nil == [t |-> "nil"]
Bool(b) == [t |-> "bool", b |-> b]
Num(n) == [t |-> "num", n |-> n]
Str(x) == [t |-> "str", s |-> <<x>>]     \* a string, as the parts it was joined from
FnVal(i) == [t |-> "fn", id |-> i]
ClassVal(i) == [t |-> "class", id |-> i]
InstVal(i) == [t |-> "inst", id |-> i]
ClockVal == [t |-> "clock"]

\* isinstance(v, LoxCallable)
IsCallable(v) == v.t \in {"fn", "class", "clock"}

----------------------------------------------------------------------------
(* Tokens.  A Token carries lexeme and line; `scan` (the number of the      *)
(* Scanner that made it) and `pos` (its place in that scanner's source,    *)
(* given as the path to it in the tree) tell one Token object from         *)
(* another.  Both are filled in by ScanNode.                               *)

Tok(lexeme, line) == [lexeme |-> lexeme, line |-> line, pos |-> <<>>, scan |-> 0]

\* Token equality and hash, as used by the dataclass-generated __eq__ and
\* __hash__ of the nodes: object identity.
TokenKey(tok) == [scan |-> tok.scan, pos |-> tok.pos]

----------------------------------------------------------------------------
(* AST (nodes.py).  Every node is a record with its class in field k and   *)
(* the dataclass fields under their own names.  NoNode stands for None in  *)
(* an optional field.                                                      *)

NoNode == [k |-> "None"]

Assign(name, value) == [k |-> "Assign", name |-> name, value |-> value]
Binary(left, operator, right) ==
    [k |-> "Binary", left |-> left, operator |-> operator, right |-> right]
Call(callee, paren, arguments) ==
    [k |-> "Call", callee |-> callee, paren |-> paren, arguments |-> arguments]
Get(object, name) == [k |-> "Get", object |-> object, name |-> name]
Grouping(expr) == [k |-> "Grouping", expr |-> expr]
Literal(value) == [k |-> "Literal", value |-> value]
Logical(left, operator, right) ==
    [k |-> "Logical", left |-> left, operator |-> operator, right |-> right]
Set(object, name, value) ==
    [k |-> "Set", object |-> object, name |-> name, value |-> value]
Super(keyword, method) == [k |-> "Super", keyword |-> keyword, method |-> method]
This(keyword) == [k |-> "This", keyword |-> keyword]
Unary(operator, right) == [k |-> "Unary", operator |-> operator, right |-> right]
Variable(name) == [k |-> "Variable", name |-> name]

Block(statements) == [k |-> "Block", statements |-> statements]
Expression(expr) == [k |-> "Expression", expr |-> expr]
Function(name, params, body) ==
    [k |-> "Function", name |-> name, params |-> params, body |-> body]
Class(name, superclass, methods) ==
    [k |-> "Class", name |-> name, superclass |-> superclass, methods |-> methods]
If(condition, then_branch, else_branch) ==
    [k |-> "If", condition |-> condition, then_branch |-> then_branch,
     else_branch |-> else_branch]
PrintStmt(expr) == [k |-> "Print", expr |-> expr]
Return(keyword, value) == [k |-> "Return", keyword |-> keyword, value |-> value]
Var(name, initializer) == [k |-> "Var", name |-> name, initializer |-> initializer]
While(condition, body) == [k |-> "While", condition |-> condition, body |-> body]

\* Fields of the node classes that hold a Token, and those that hold a list
\* of nodes.
TokenFields == {"name", "operator", "paren", "keyword", "method"}
IsListField(n, f) ==
    \/ f \in {"arguments", "statements", "methods"}
    \/ f = "body" /\ n.k = "Function"

FieldNames ==
    <<"name", "operator", "paren", "keyword", "method", "value", "left", "right",
      "callee", "arguments", "object", "expr", "statements", "params", "body",
      "superclass", "methods", "condition", "then_branch", "else_branch",
      "initializer">>
FieldNo(f) == CHOOSE i \in 1..Len(FieldNames) : FieldNames[i] = f

\* The nodes a Scanner/Parser pair builds for a source text: the tree of
\* the text with every Token a fresh object of scanner number r.
RECURSIVE ScanNode(_, _, _)
ScanNode(n, r, path) ==
    IF n.k = "None" THEN n
    ELSE [f \in DOMAIN n |->
            IF f = "k" THEN n.k
            ELSE IF f \in TokenFields
                 THEN [n[f] EXCEPT !.scan = r, !.pos = Append(path, FieldNo(f))]
            ELSE IF f = "params"
                 THEN [i \in DOMAIN n.params |->
                          [n.params[i] EXCEPT !.scan = r,
                                              !.pos = path \o <<FieldNo(f), i>>]]
            ELSE IF IsListField(n, f)
                 THEN [i \in DOMAIN n[f] |->
                          ScanNode(n[f][i], r, path \o <<FieldNo(f), i>>)]
            ELSE IF f = "value" /\ n.k = "Literal" THEN n.value
            ELSE ScanNode(n[f], r, Append(path, FieldNo(f)))]

\* Scanner(source).scan_tokens() and Parser(tokens).parse() for the r-th
\* source of the session
Parse(stmts, r) == [i \in DOMAIN stmts |-> ScanNode(stmts[i], r, <<i>>)]

\* hash(expr) raises TypeError when a field reached by the generated
\* __hash__ is a list: Call.arguments.
RECURSIVE Hashable(_)
Hashable(e) ==
    /\ e.k # "Call"
    /\ \A f \in DOMAIN e :
          (f \notin TokenFields /\ f # "k" /\ ~(f = "value" /\ e.k = "Literal"))
              => Hashable(e[f])

\* The key of a node if Tokens were compared by lexeme and line
RECURSIVE ExprKeyByValue(_)
ExprKeyByValue(e) ==
    [f \in DOMAIN e |->
        IF f = "k" THEN e.k
        ELSE IF f \in TokenFields THEN [lexeme |-> e[f].lexeme, line |-> e[f].line]
        ELSE IF f = "value" /\ e.k = "Literal" THEN e.value
        ELSE ExprKeyByValue(e[f])]

\* What the generated __eq__/__hash__ of a frozen dataclass node compare:
\* the class and the tuple of fields, Tokens by TokenKey.
RECURSIVE ExprKey(_)
ExprKey(e) ==
    [f \in DOMAIN e |->
        IF f = "k" THEN e.k
        ELSE IF f \in TokenFields THEN TokenKey(e[f])
        ELSE IF f = "value" /\ e.k = "Literal" THEN e.value
        ELSE ExprKey(e[f])]

----------------------------------------------------------------------------
(* Environment (environment.py).  The operations work on the heap `es` of  *)
(* environments and name an environment by its index; enclosing = 0 is     *)
(* None.                                                                   *)

NoValues == [x \in {} |-> Nil]

\* Environment(enclosing): the heap with the new object appended.
Environment(es, enclosing) == Append(es, [values |-> NoValues, enclosing |-> enclosing])

define(es, e, name, value) == [es EXCEPT ![e].values = (name :> value) @@ @]

\* 0 when `assert environment.enclosing is not None` fails on the way.
RECURSIVE ancestor(_, _, _)
ancestor(es, e, distance) ==
    IF distance <= 0 THEN e
    ELSE IF es[e].enclosing = 0 THEN 0
    ELSE ancestor(es, es[e].enclosing, distance - 1)

get_at(es, e, distance, name) ==
    LET a == ancestor(es, e, distance) IN
    IF a = 0 THEN [exc |-> "AssertionError", val |-> Nil]
    ELSE IF name \notin DOMAIN es[a].values THEN [exc |-> "KeyError", val |-> Nil]
    ELSE [exc |-> "none", val |-> es[a].values[name]]

\* `created` tells that the store made a new key (a dict store never fails).
assign_at(es, e, distance, name, value) ==
    LET a == ancestor(es, e, distance) IN
    IF a = 0 THEN [exc |-> "AssertionError", es |-> es, created |-> FALSE]
    ELSE [exc |-> "none", es |-> define(es, a, name.lexeme, value),
          created |-> name.lexeme \notin DOMAIN es[a].values]

\* The message of an error: the text with the values it is formatted with.
Msg(text) == [msg |-> text]

UndefinedVariable(name) ==
    [token |-> name,
     message |-> [msg |-> "Undefined variable '{name.lexeme}'.", name |-> name.lexeme]]

RECURSIVE get(_, _, _)
get(es, e, name) ==
    IF name.lexeme \in DOMAIN es[e].values
    THEN [err |-> NoNode, val |-> es[e].values[name.lexeme]]
    ELSE IF es[e].enclosing # 0 THEN get(es, es[e].enclosing, name)
    ELSE [err |-> UndefinedVariable(name), val |-> Nil]

\* An assign that stores the value in the root when no environment has the name
RECURSIVE assign_or_define(_, _, _, _)
assign_or_define(es, e, name, value) ==
    IF name.lexeme \in DOMAIN es[e].values \/ es[e].enclosing = 0
    THEN [err |-> NoNode, es |-> define(es, e, name.lexeme, value)]
    ELSE assign_or_define(es, es[e].enclosing, name, value)

RECURSIVE assign(_, _, _, _)
assign(es, e, name, value) ==
    IF name.lexeme \in DOMAIN es[e].values
    THEN [err |-> NoNode, es |-> [es EXCEPT ![e].values[name.lexeme] = value]]
    ELSE IF es[e].enclosing # 0 THEN assign(es, es[e].enclosing, name, value)
    ELSE [err |-> UndefinedVariable(name), es |-> es]

----------------------------------------------------------------------------
(* Resolver (resolver.py).  A resolver state rs holds the fields of the    *)
(* Resolver object, the interpreter's `locals` it writes through           *)
(* Interpreter.resolve, `exc` (the Python exception that ended the pass,   *)
(* "none" while it runs) and `occ`, the history of resolve_local's         *)
(* decisions: the expression and the depth found, -1 for none.             *)

Resolver(interpreter_locals, history) ==
    [scopes |-> <<>>, current_function |-> "NONE", current_class |-> "NONE",
     errors |-> <<>>, locals |-> interpreter_locals, exc |-> "none", occ |-> history]

ResolverError(rs, token, message) ==
    [rs EXCEPT !.errors = Append(@, [token |-> token, message |-> Msg(message)])]

\* scopes.append({}) and scopes.pop() of the scope() context manager
PushScope(rs) == [rs EXCEPT !.scopes = Append(@, [x \in {} |-> TRUE])]
PopScope(rs) == [rs EXCEPT !.scopes = SubSeq(@, 1, Len(@) - 1)]
SetCurrentScope(rs, name, flag) ==
    [rs EXCEPT !.scopes[Len(rs.scopes)] = (name :> flag) @@ @]

\* A declare that looks for the name in every scope of the stack
Resolver_declare_any_scope(name, rs) ==
    IF rs.scopes = <<>> THEN rs
    ELSE LET r1 == IF \E i \in DOMAIN rs.scopes : name.lexeme \in DOMAIN rs.scopes[i]
                   THEN ResolverError(rs, name,
                            "Already a variable with this name in this scope.")
                   ELSE rs
         IN SetCurrentScope(r1, name.lexeme, FALSE)

Resolver_declare(name, rs) ==
    IF rs.scopes = <<>> THEN rs
    ELSE LET r1 == IF name.lexeme \in DOMAIN rs.scopes[Len(rs.scopes)]
                   THEN ResolverError(rs, name,
                            "Already a variable with this name in this scope.")
                   ELSE rs
         IN SetCurrentScope(r1, name.lexeme, FALSE)

Resolver_define(name, rs) ==
    IF rs.scopes = <<>> THEN rs ELSE SetCurrentScope(rs, name.lexeme, TRUE)

\* Interpreter.resolve: self.locals[expr] = depth
Interpreter_resolve(expr, depth, rs) ==
    IF ~Hashable(expr) THEN [rs EXCEPT !.exc = "TypeError"]
    ELSE [rs EXCEPT !.locals = (ExprKey(expr) :> depth) @@ @]

\* The index of the first scope that holds the name, counted and searched
\* from the outermost scope
RECURSIVE FirstScopeFromOutermost(_, _, _)
FirstScopeFromOutermost(scopes, lexeme, idx) ==
    IF idx >= Len(scopes) THEN -1
    ELSE IF lexeme \in DOMAIN scopes[idx + 1] THEN idx
    ELSE FirstScopeFromOutermost(scopes, lexeme, idx + 1)

\* The index, counted from the innermost scope, of the first scope that
\* holds the name; -1 when none does.
RECURSIVE FirstScopeWith(_, _, _)
FirstScopeWith(scopes, lexeme, idx) ==
    IF idx >= Len(scopes) THEN -1
    ELSE IF lexeme \in DOMAIN scopes[Len(scopes) - idx] THEN idx
    ELSE FirstScopeWith(scopes, lexeme, idx + 1)

resolve_local(expr, name, rs) ==
    LET idx == FirstScopeWith(rs.scopes, name.lexeme, 0)
        r1 == [rs EXCEPT !.occ = @ \cup {[expr |-> expr, depth |-> idx]}]
    IN IF idx = -1 THEN r1 ELSE Interpreter_resolve(expr, idx, r1)

RECURSIVE Resolver_resolve(_, _, _)
RECURSIVE Resolver_accept(_, _)
RECURSIVE resolve_function(_, _, _)
RECURSIVE DeclareParams(_, _, _)
RECURSIVE ResolveMethods(_, _, _)

\* A resolve_function that leaves current_function as the body set it
resolve_function_no_restore(function, function_type, rs) ==
    PopScope(Resolver_resolve(function.body, 1,
                 DeclareParams(function.params, 1,
                     PushScope([rs EXCEPT !.current_function = function_type]))))

\* Resolver.resolve(*statements), from the i-th on
Resolver_resolve(nodes, i, rs) ==
    IF i > Len(nodes) \/ rs.exc # "none" THEN rs
    ELSE Resolver_resolve(nodes, i + 1, Resolver_accept(nodes[i], rs))

DeclareParams(params, i, rs) ==
    IF i > Len(params) THEN rs
    ELSE DeclareParams(params, i + 1,
                       Resolver_define(params[i], Resolver_declare(params[i], rs)))

resolve_function(function, function_type, rs) ==
    LET enclosing_function == rs.current_function
        r1 == PushScope([rs EXCEPT !.current_function = function_type])
        r2 == DeclareParams(function.params, 1, r1)
        r3 == PopScope(Resolver_resolve(function.body, 1, r2))
    IN IF r3.exc # "none" THEN r3
       ELSE [r3 EXCEPT !.current_function = enclosing_function]

ResolveMethods(methods, i, rs) ==
    IF i > Len(methods) \/ rs.exc # "none" THEN rs
    ELSE LET declaration == IF methods[i].name.lexeme = "init"
                            THEN "INITIALIZER" ELSE "METHOD"
         IN ResolveMethods(methods, i + 1,
                           resolve_function(methods[i], declaration, rs))

resolve_class_body(stmt, rs) ==
    PopScope(ResolveMethods(stmt.methods, 1,
                            SetCurrentScope(PushScope(rs), "this", TRUE)))

\* A visit_class_stmt that leaves current_class as the declaration set it
Resolver_visit_class_stmt_no_restore(stmt, rs) ==
    LET r1 == Resolver_define(stmt.name,
                  Resolver_declare(stmt.name, [rs EXCEPT !.current_class = "CLASS"]))
    IN IF stmt.superclass = NoNode THEN resolve_class_body(stmt, r1)
       ELSE LET r3 == IF stmt.name.lexeme = stmt.superclass.name.lexeme
                      THEN ResolverError(r1, stmt.superclass.name,
                               "A class can't inherit from itself.")
                      ELSE r1
                r4 == Resolver_accept(stmt.superclass,
                          [r3 EXCEPT !.current_class = "SUBCLASS"])
            IN IF r4.exc # "none" THEN r4
               ELSE PopScope(resolve_class_body(stmt,
                        SetCurrentScope(PushScope(r4), "super", TRUE)))

Resolver_visit_class_stmt(stmt, rs) ==
    LET enclosing_class == rs.current_class
        r1 == Resolver_define(stmt.name,
                  Resolver_declare(stmt.name, [rs EXCEPT !.current_class = "CLASS"]))
        r2 == IF stmt.superclass = NoNode THEN resolve_class_body(stmt, r1)
              ELSE LET r3 == IF stmt.name.lexeme = stmt.superclass.name.lexeme
                             THEN ResolverError(r1, stmt.superclass.name,
                                      "A class can't inherit from itself.")
                             ELSE r1
                       r4 == Resolver_accept(stmt.superclass,
                                 [r3 EXCEPT !.current_class = "SUBCLASS"])
                   IN IF r4.exc # "none" THEN r4
                      ELSE PopScope(resolve_class_body(stmt,
                               SetCurrentScope(PushScope(r4), "super", TRUE)))
    IN IF r2.exc # "none" THEN r2
       ELSE [r2 EXCEPT !.current_class = enclosing_class]

Resolver_visit_return_stmt(stmt, rs) ==
    LET r1 == IF rs.current_function = "NONE"
              THEN ResolverError(rs, stmt.keyword, "Can't return from top-level code.")
              ELSE rs
    IN IF stmt.value = NoNode THEN r1
       ELSE LET r2 == IF r1.current_function = "INITIALIZER"
                      THEN ResolverError(r1, stmt.keyword,
                               "Can't return a value from an initializer.")
                      ELSE r1
            IN Resolver_accept(stmt.value, r2)

Resolver_visit_var_stmt(stmt, rs) ==
    LET r1 == Resolver_declare(stmt.name, rs)
        r2 == IF stmt.initializer = NoNode THEN r1
              ELSE Resolver_accept(stmt.initializer, r1)
    IN IF r2.exc # "none" THEN r2 ELSE Resolver_define(stmt.name, r2)

Resolver_visit_super_expr(expr, rs) ==
    LET r1 == IF rs.current_class = "NONE"
              THEN ResolverError(rs, expr.keyword, "Can't use 'super' outside of a class.")
              ELSE IF rs.current_class # "SUBCLASS"
              THEN ResolverError(rs, expr.keyword,
                       "Can't use 'super' in a class with no superclass.")
              ELSE rs
    IN resolve_local(expr, expr.keyword, r1)

Resolver_visit_this_expr(expr, rs) ==
    LET r1 == IF rs.current_class = "NONE"
              THEN ResolverError(rs, expr.keyword, "Can't use 'this' outside of a class.")
              ELSE rs
    IN resolve_local(expr, expr.keyword, r1)

\* A visit_variable_expr that tests the flag with `not` instead of `is False`
Resolver_visit_variable_expr_falsy(expr, rs) ==
    LET cur == IF rs.scopes = <<>> THEN [x \in {} |-> TRUE]
               ELSE rs.scopes[Len(rs.scopes)]
        r1 == IF rs.scopes # <<>>
                 /\ (expr.name.lexeme \in DOMAIN cur => ~cur[expr.name.lexeme])
              THEN ResolverError(rs, expr.name,
                       "Can't read local variable in its own initializer.")
              ELSE rs
    IN resolve_local(expr, expr.name, r1)

Resolver_visit_variable_expr(expr, rs) ==
    LET cur == IF rs.scopes = <<>> THEN [x \in {} |-> TRUE]
               ELSE rs.scopes[Len(rs.scopes)]
        r1 == IF expr.name.lexeme \in DOMAIN cur /\ ~cur[expr.name.lexeme]
              THEN ResolverError(rs, expr.name,
                       "Can't read local variable in its own initializer.")
              ELSE rs
    IN resolve_local(expr, expr.name, r1)

\* node.accept(resolver): the visit_* method of the node's class
Resolver_accept(n, rs) ==
    CASE n.k = "Block" ->
            PopScope(Resolver_resolve(n.statements, 1, PushScope(rs)))
      [] n.k = "Class" -> Resolver_visit_class_stmt(n, rs)
      [] n.k \in {"Expression", "Print", "Grouping"} -> Resolver_accept(n.expr, rs)
      [] n.k = "Function" ->
            resolve_function(n, "FUNCTION",
                Resolver_define(n.name, Resolver_declare(n.name, rs)))
      [] n.k = "If" ->
            Resolver_resolve(
                IF n.else_branch = NoNode
                THEN <<n.condition, n.then_branch>>
                ELSE <<n.condition, n.then_branch, n.else_branch>>, 1, rs)
      [] n.k = "Return" -> Resolver_visit_return_stmt(n, rs)
      [] n.k = "Var" -> Resolver_visit_var_stmt(n, rs)
      [] n.k = "While" -> Resolver_resolve(<<n.condition, n.body>>, 1, rs)
      [] n.k = "Assign" ->
            LET r1 == Resolver_accept(n.value, rs)
            IN IF r1.exc # "none" THEN r1 ELSE resolve_local(n, n.name, r1)
      [] n.k \in {"Binary", "Logical"} -> Resolver_resolve(<<n.left, n.right>>, 1, rs)
      [] n.k = "Call" -> Resolver_resolve(<<n.callee>> \o n.arguments, 1, rs)
      [] n.k = "Get" -> Resolver_accept(n.object, rs)
      [] n.k = "Literal" -> rs
      [] n.k = "Set" -> Resolver_resolve(<<n.value, n.object>>, 1, rs)
      [] n.k = "Super" -> Resolver_visit_super_expr(n, rs)
      [] n.k = "This" -> Resolver_visit_this_expr(n, rs)
      [] n.k = "Unary" -> Resolver_accept(n.right, rs)
      [] n.k = "Variable" -> Resolver_visit_variable_expr(n, rs)

----------------------------------------------------------------------------
(* Interpreter and runtime objects (interpreter.py, runtime.py).           *)
(*                                                                         *)
(* An interpreter state s holds the heap (envs, fns, classes, insts), the  *)
(* Interpreter fields env and locals, the lines printed (out) and how the  *)
(* last evaluation ended:                                                  *)
(*   sig = "ok"      it returned; val is the value (args for a list)       *)
(*   sig = "return"  runtime.Return is propagating, val is its payload     *)
(*   sig = "error"   LoxRunTimeError is propagating, err = token, message  *)
(*   sig = "crash"   another Python exception is propagating, err names it *)
(*   sig = "cut"     the run was cut at MaxSteps                           *)
(* and the history of the run: log (every LoxCallable.call made), binds    *)
(* (every LoxFunction.bind), decls (every class declared), supers          *)
(* (every visit_super_expr), created (assign_at made a new key), maxd (the *)
(* largest distance looked up) and time (the clock).                       *)

GLOBALS == 1

Raise(s, token, message) ==
    [s EXCEPT !.sig = "error", !.err = [token |-> token, message |-> message]]

RaiseRec(s, err) == [s EXCEPT !.sig = "error", !.err = err]

Crash(s, exception) ==
    [s EXCEPT !.sig = "crash", !.err = [exception |-> exception]]

Ok(s, value) == [s EXCEPT !.sig = "ok", !.val = value]

is_truthy(obj) ==
    IF obj.t = "nil" THEN FALSE
    ELSE IF obj.t = "bool" THEN obj.b
    ELSE TRUE

\* A bool as Python compares it with a number: True is 1 and False is 0
AsNumber(obj) ==
    IF obj.t = "bool" THEN Num(IF obj.b THEN 1 ELSE 0) ELSE obj

\* Python's ==: by value for nil, bool, number and string (NaN equal to
\* nothing, a bool equal to the number it counts as), by identity for the
\* runtime objects.
PyEq(obj1, obj2) ==
    /\ AsNumber(obj1).t = AsNumber(obj2).t
    /\ obj1.t # "nan"
    /\ AsNumber(obj1) = AsNumber(obj2)

\* An is_equal that is Python's == alone
is_equal_python(obj1, obj2) == PyEq(obj1, obj2)

is_equal(obj1, obj2) ==
    IF obj1.t \in {"num", "nan"} /\ obj2.t = "bool" THEN FALSE
    ELSE IF obj1.t = "bool" /\ obj2.t \in {"num", "nan"} THEN FALSE
    ELSE PyEq(obj1, obj2)

IsFloat(obj) == obj.t \in {"num", "nan"}

\* The line print() writes for a value: the parts of the text, or the
\* number for a number.
Line(x) == [text |-> <<x>>]
stringify(obj, s) ==
    CASE obj.t = "nil" -> Line("nil")
      [] obj.t = "bool" -> Line(IF obj.b THEN "true" ELSE "false")
      [] obj.t = "num" -> [number |-> obj.n]
      [] obj.t = "nan" -> Line("nan")
      [] obj.t = "str" -> [text |-> obj.s]
      [] obj.t = "fn" ->
            [text |-> <<"<fn ", s.fns[obj.id].declaration.name.lexeme, ">">>]
      [] obj.t = "class" -> Line(s.classes[obj.id].name)
      [] obj.t = "inst" ->
            [text |-> <<s.classes[s.insts[obj.id].cls].name, " instance">>]
      [] obj.t = "clock" -> Line("<native fn>")

\* LoxClass.find_method: the LoxFunction (index into fns), 0 for None
RECURSIVE find_method(_, _, _)
find_method(cs, c, name) ==
    IF name \in DOMAIN cs[c].methods THEN cs[c].methods[name]
    ELSE IF cs[c].superclass # 0 THEN find_method(cs, cs[c].superclass, name)
    ELSE 0

\* A LoxFunction that keeps a copy of the environment it is declared in
LoxFunction_snapshot(declaration, closure, is_initializer, s) ==
    [s EXCEPT !.envs = Append(@, @[closure]),
              !.fns = Append(@, [declaration |-> declaration,
                                 closure |-> Len(s.envs) + 1,
                                 is_initializer |-> is_initializer]),
              !.val = FnVal(Len(s.fns) + 1)]

\* LoxFunction(declaration, closure, is_initializer): s.val is the new object
LoxFunction(declaration, closure, is_initializer, s) ==
    [s EXCEPT !.fns = Append(@, [declaration |-> declaration, closure |-> closure,
                                 is_initializer |-> is_initializer]),
              !.val = FnVal(Len(s.fns) + 1)]

\* What a bind leaves in the history: the function and the instance, the
\* function and its closure as they were before and are after, the numbers
\* of functions and environments there were, and the function returned
Binding(f, instance, s, s2) ==
    [f |-> f, instance |-> instance, result |-> s2.val.id,
     fns |-> Len(s.fns), envs |-> Len(s.envs),
     before |-> [fn |-> s.fns[f], closure |-> s.envs[s.fns[f].closure]],
     after |-> [fn |-> s2.fns[f], closure |-> s2.envs[s.fns[f].closure]]]

\* A bind that defines `this` in the function's own closure
bind_in_closure(f, instance, s) ==
    LET e == s.fns[f].closure
        Bound(s2) == [s2 EXCEPT !.binds = Append(@, Binding(f, instance, s, s2))]
    IN Bound(LoxFunction(s.fns[f].declaration, e, s.fns[f].is_initializer,
                         [s EXCEPT !.envs = define(@, e, "this", instance)]))

\* LoxFunction.bind
bind(f, instance, s) ==
    LET e == Len(s.envs) + 1
        s1 == [s EXCEPT !.envs = define(Environment(@, s.fns[f].closure), e,
                                        "this", instance)]
        Bound(s2) == [s2 EXCEPT !.binds = Append(@, Binding(f, instance, s, s2))]
    IN Bound(LoxFunction(s.fns[f].declaration, e, s.fns[f].is_initializer, s1))

\* LoxCallable.arity
arity(callee, s) ==
    CASE callee.t = "fn" -> Len(s.fns[callee.id].declaration.params)
      [] callee.t = "class" ->
            LET initializer == find_method(s.classes, callee.id, "init")
            IN IF initializer = 0 THEN 0
               ELSE Len(s.fns[initializer].declaration.params)
      [] callee.t = "clock" -> 0

\* LoxInstance.get
LoxInstance_get(i, name, s) ==
    IF name.lexeme \in DOMAIN s.insts[i].fields
       /\ s.insts[i].fields[name.lexeme].t # "nil"
    THEN Ok(s, s.insts[i].fields[name.lexeme])
    ELSE LET method == find_method(s.classes, s.insts[i].cls, name.lexeme)
         IN IF method # 0 THEN bind(method, InstVal(i), s)
            ELSE Raise(s, name, [msg |-> "Undefined property '{name.lexeme}'.",
                                 name |-> name.lexeme])

\* LoxInstance.set
LoxInstance_set(i, name, value, s) ==
    [s EXCEPT !.insts[i].fields = (name.lexeme :> value) @@ @]

RECURSIVE evaluate(_, _)
RECURSIVE execute(_, _)
RECURSIVE ExecuteAll(_, _, _)
RECURSIVE EvaluateAll(_, _, _, _)
RECURSIVE WhileLoop(_, _)
RECURSIVE LoxFunction_call(_, _, _)

\* An execute_block without `finally`: the environment is restored only
\* when the statements end normally
execute_block_no_finally(stmts, environment, s) ==
    LET enclosing == s.env
        Restore(s1) == IF s1.sig = "ok" THEN [s1 EXCEPT !.env = enclosing] ELSE s1
    IN Restore(ExecuteAll(stmts, 1, [s EXCEPT !.env = environment]))

\* An execute_block that restores the environment when the statements end
\* normally or with Return, and not when a LoxRunTimeError passes
execute_block_except_error(stmts, environment, s) ==
    LET enclosing == s.env
        Restore(s1) == IF s1.sig = "error" THEN s1 ELSE [s1 EXCEPT !.env = enclosing]
    IN Restore(ExecuteAll(stmts, 1, [s EXCEPT !.env = environment]))

\* Interpreter.execute_block
execute_block(stmts, environment, s) ==
    LET enclosing == s.env
        s1 == ExecuteAll(stmts, 1, [s EXCEPT !.env = environment])
    IN [s1 EXCEPT !.env = enclosing]

\* for stmt in stmts: self.execute(stmt), from the i-th on
ExecuteAll(stmts, i, s) ==
    IF i > Len(stmts) \/ s.sig # "ok" THEN s
    ELSE ExecuteAll(stmts, i + 1, execute(stmts[i], s))

\* [self.evaluate(argument) for argument in expr.arguments]: s.args
EvaluateAll(arguments, i, acc, s) ==
    IF i > Len(arguments) THEN [s EXCEPT !.args = acc]
    ELSE LET Rest(s1) ==
                 IF s1.sig # "ok" THEN s1
                 ELSE EvaluateAll(arguments, i + 1, Append(acc, s1.val), s1)
         IN Rest(evaluate(arguments[i], s))

\* for param, arg in zip(params, arguments): env.define(param.lexeme, arg)
RECURSIVE DefineParams(_, _, _, _, _)
DefineParams(es, e, params, arguments, i) ==
    IF i > Len(params) \/ i > Len(arguments) THEN es
    ELSE DefineParams(define(es, e, params[i].lexeme, arguments[i]),
                      e, params, arguments, i + 1)

\* An initializer that returns like any other function
InitializerPayload(f, s) == Ok(s, IF s.sig = "return" THEN s.val ELSE Nil)

\* closure.get_at(0, "this") of an initializer
InitializerResult(f, s) ==
    LET r == get_at(s.envs, s.fns[f].closure, 0, "this")
    IN IF r.exc # "none" THEN Crash(s, r.exc) ELSE Ok(s, r.val)

\* A call that binds the parameters in the closure itself
LoxFunction_call_in_closure(f, arguments, s) ==
    IF s.steps >= MaxSteps THEN [s EXCEPT !.sig = "cut"]
    ELSE
    LET fn == s.fns[f]
        e == fn.closure
        Logged(s1, s2, s3) ==
            [s3 EXCEPT !.log = Append(@, [callee |-> FnVal(f),
                                          arguments |-> arguments,
                                          heap |-> Len(s.envs), env |-> e,
                                          bound |-> s1.envs[e].values,
                                          body |-> s2.sig, sig |-> s3.sig,
                                          val |-> s3.val])]
        Returned(s1, s2) ==
            Logged(s1, s2,
                   IF s2.sig = "return"
                   THEN IF fn.is_initializer THEN InitializerResult(f, s2)
                        ELSE Ok(s2, s2.val)
                   ELSE IF s2.sig = "ok"
                   THEN IF fn.is_initializer THEN InitializerResult(f, s2)
                        ELSE Ok(s2, Nil)
                   ELSE s2)
        Called(s1) == Returned(s1, execute_block(fn.declaration.body, e, s1))
    IN Called([s EXCEPT !.steps = @ + 1,
                        !.envs = DefineParams(@, e, fn.declaration.params,
                                              arguments, 1)])

\* LoxFunction.call
LoxFunction_call(f, arguments, s) ==
    IF s.steps >= MaxSteps THEN [s EXCEPT !.sig = "cut"]
    ELSE
    LET fn == s.fns[f]
        e == Len(s.envs) + 1
        Logged(s1, s2, s3) ==
            [s3 EXCEPT !.log = Append(@, [callee |-> FnVal(f),
                                          arguments |-> arguments,
                                          heap |-> Len(s.envs), env |-> e,
                                          bound |-> s1.envs[e].values,
                                          body |-> s2.sig, sig |-> s3.sig,
                                          val |-> s3.val])]
        Returned(s1, s2) ==
            Logged(s1, s2,
                   IF s2.sig = "return"
                   THEN IF fn.is_initializer THEN InitializerResult(f, s2)
                        ELSE Ok(s2, s2.val)
                   ELSE IF s2.sig = "ok"
                   THEN IF fn.is_initializer THEN InitializerResult(f, s2)
                        ELSE Ok(s2, Nil)
                   ELSE s2)
        Called(s1) == Returned(s1, execute_block(fn.declaration.body, e, s1))
    IN Called([s EXCEPT !.steps = @ + 1,
                        !.envs = DefineParams(Environment(@, fn.closure), e,
                                              fn.declaration.params, arguments, 1)])

\* A LoxClass.call that looks for init among the class's own methods only
LoxClass_call_own_init(c, arguments, s) ==
    LET i == Len(s.insts) + 1
        initializer == IF "init" \in DOMAIN s.classes[c].methods
                       THEN s.classes[c].methods["init"] ELSE 0
        Logged(s2, s3) ==
            [s3 EXCEPT !.log = Append(@, [callee |-> ClassVal(c),
                                          arguments |-> arguments,
                                          heap |-> Len(s.envs), env |-> 0,
                                          bound |-> NoValues,
                                          body |-> s2.sig, sig |-> s3.sig,
                                          val |-> s3.val,
                                          instances |-> Len(s.insts),
                                          calls |-> Len(s.log),
                                          fields |-> s2.insts[i].fields])]
        Made(s2) == Logged(s2, IF s2.sig # "ok" THEN s2 ELSE Ok(s2, InstVal(i)))
        Bound(b) == LoxFunction_call(b.val.id, arguments, b)
        Initialized(s1) ==
            IF initializer = 0 THEN s1
            ELSE Bound(bind(initializer, InstVal(i), s1))
    IN Made(Initialized([s EXCEPT !.insts = Append(@, [cls |-> c,
                                                       fields |-> NoValues])]))

\* LoxClass.call
LoxClass_call(c, arguments, s) ==
    LET i == Len(s.insts) + 1
        initializer == find_method(s.classes, c, "init")
        Logged(s2, s3) ==
            [s3 EXCEPT !.log = Append(@, [callee |-> ClassVal(c),
                                          arguments |-> arguments,
                                          heap |-> Len(s.envs), env |-> 0,
                                          bound |-> NoValues,
                                          body |-> s2.sig, sig |-> s3.sig,
                                          val |-> s3.val,
                                          instances |-> Len(s.insts),
                                          calls |-> Len(s.log),
                                          fields |-> s2.insts[i].fields])]
        Made(s2) == Logged(s2, IF s2.sig # "ok" THEN s2 ELSE Ok(s2, InstVal(i)))
        Bound(b) == LoxFunction_call(b.val.id, arguments, b)
        Initialized(s1) ==
            IF initializer = 0 THEN s1
            ELSE Bound(bind(initializer, InstVal(i), s1))
    IN Made(Initialized([s EXCEPT !.insts = Append(@, [cls |-> c,
                                                       fields |-> NoValues])]))

\* Clock.call
Clock_call(arguments, s) ==
    [s EXCEPT !.sig = "ok", !.val = Num(s.time), !.time = @ + 1,
              !.log = Append(@, [callee |-> ClockVal, arguments |-> arguments,
                                 heap |-> Len(s.envs), env |-> 0,
                                 bound |-> NoValues, body |-> "ok",
                                 sig |-> "ok", val |-> Num(s.time)])]

\* callee.call(self, arguments)
call(callee, arguments, s) ==
    CASE callee.t = "fn" -> LoxFunction_call(callee.id, arguments, s)
      [] callee.t = "class" -> LoxClass_call(callee.id, arguments, s)
      [] callee.t = "clock" -> Clock_call(arguments, s)

\* A visit_call_expr without the arity check
Interpreter_visit_call_expr_unchecked(expr, s) ==
    LET Apply(callee, s2) ==
            IF s2.sig # "ok" THEN s2
            ELSE IF ~IsCallable(callee)
            THEN Raise(s2, expr.paren, Msg("Can only call functions and classes."))
            ELSE call(callee, s2.args, s2)
        Arguments(s1) ==
            IF s1.sig # "ok" THEN s1
            ELSE Apply(s1.val, EvaluateAll(expr.arguments, 1, <<>>, s1))
    IN Arguments(evaluate(expr.callee, s))

\* Interpreter.visit_call_expr
Interpreter_visit_call_expr(expr, s) ==
    LET Apply(callee, s2) ==
            IF s2.sig # "ok" THEN s2
            ELSE IF ~IsCallable(callee)
            THEN Raise(s2, expr.paren, Msg("Can only call functions and classes."))
            ELSE IF Len(s2.args) # arity(callee, s2)
            THEN Raise(s2, expr.paren,
                       [msg |-> "Expected {arity} arguments but got {nb_args}.",
                        arity |-> arity(callee, s2), nb_args |-> Len(s2.args)])
            ELSE call(callee, s2.args, s2)
        Arguments(s1) ==
            IF s1.sig # "ok" THEN s1
            ELSE Apply(s1.val, EvaluateAll(expr.arguments, 1, <<>>, s1))
    IN Arguments(evaluate(expr.callee, s))

\* A look_up_variable that walks the chain of the current environment
look_up_variable_dynamic(name, expr, s) ==
    LET r == get(s.envs, s.env, name)
    IN IF r.err # NoNode THEN RaiseRec(s, r.err) ELSE Ok(s, r.val)

\* Interpreter.look_up_variable
look_up_variable(name, expr, s) ==
    IF ExprKey(expr) \in DOMAIN s.locals
    THEN LET distance == s.locals[ExprKey(expr)]
             r == get_at(s.envs, s.env, distance, name.lexeme)
             s1 == [s EXCEPT !.maxd = IF distance > @ THEN distance ELSE @]
         IN IF r.exc # "none" THEN Crash(s1, r.exc) ELSE Ok(s1, r.val)
    ELSE LET r == get(s.envs, GLOBALS, name)
         IN IF r.err # NoNode THEN RaiseRec(s, r.err) ELSE Ok(s, r.val)

Interpreter_visit_assign_expr(expr, s) ==
    LET Store(value, s1) ==
            IF s1.sig # "ok" THEN s1
            ELSE IF ~Hashable(expr) THEN Crash(s1, "TypeError")
            ELSE IF ExprKey(expr) \in DOMAIN s1.locals
            THEN LET distance == s1.locals[ExprKey(expr)]
                     r == assign_at(s1.envs, s1.env, distance, expr.name, value)
                 IN IF r.exc # "none" THEN Crash(s1, r.exc)
                    ELSE [s1 EXCEPT !.envs = r.es, !.val = value,
                                    !.created = @ \/ r.created,
                                    !.maxd = IF distance > @ THEN distance ELSE @]
            ELSE LET r == assign(s1.envs, GLOBALS, expr.name, value)
                 IN IF r.err # NoNode THEN RaiseRec(s1, r.err)
                    ELSE [s1 EXCEPT !.envs = r.es, !.val = value]
        Value(s1) == Store(s1.val, s1)
    IN Value(evaluate(expr.value, s))

\* A visit_super_expr that starts at the superclass of the class of `this`
Interpreter_visit_super_expr_dynamic(expr, s) ==
    IF ExprKey(expr) \notin DOMAIN s.locals THEN Crash(s, "AssertionError")
    ELSE
    LET distance == s.locals[ExprKey(expr)]
        object == get_at(s.envs, s.env, distance - 1, "this")
    IN IF object.exc # "none" THEN Crash(s, object.exc)
       ELSE IF object.val.t # "inst" THEN Crash(s, "AssertionError")
       ELSE LET superclass == s.classes[s.insts[object.val.id].cls].superclass
                method == find_method(s.classes, superclass, expr.method.lexeme)
                s1 == [s EXCEPT !.supers = Append(@, [expr |-> expr,
                                                      distance |-> distance,
                                                      superclass |-> superclass,
                                                      object |-> object.val.id,
                                                      method |-> method])]
            IN IF method = 0
               THEN Raise(s1, expr.method,
                          [msg |-> "Undefined property '{expr.method.lexeme}'.",
                           name |-> expr.method.lexeme])
               ELSE bind(method, object.val, s1)

\* Interpreter.visit_super_expr
Interpreter_visit_super_expr(expr, s) ==
    IF ExprKey(expr) \notin DOMAIN s.locals THEN Crash(s, "AssertionError")
    ELSE
    LET distance == s.locals[ExprKey(expr)]
        superclass == get_at(s.envs, s.env, distance, "super")
        object == get_at(s.envs, s.env, distance - 1, "this")
    IN IF superclass.exc # "none" THEN Crash(s, superclass.exc)
       ELSE IF superclass.val.t # "class" THEN Crash(s, "AssertionError")
       ELSE IF object.exc # "none" THEN Crash(s, object.exc)
       ELSE IF object.val.t # "inst" THEN Crash(s, "AssertionError")
       ELSE LET method == find_method(s.classes, superclass.val.id, expr.method.lexeme)
                s1 == [s EXCEPT !.supers = Append(@, [expr |-> expr,
                                                      distance |-> distance,
                                                      superclass |-> superclass.val.id,
                                                      object |-> object.val.id,
                                                      method |-> method])]
            IN IF method = 0
               THEN Raise(s1, expr.method,
                          [msg |-> "Undefined property '{expr.method.lexeme}'.",
                           name |-> expr.method.lexeme])
               ELSE bind(method, object.val, s1)

\* A visit_logical_expr that evaluates both operands before it chooses
Interpreter_visit_logical_expr_eager(expr, s) ==
    LET Choose(left, s2) ==
            IF s2.sig # "ok" THEN s2
            ELSE IF expr.operator.lexeme = "or" /\ is_truthy(left) THEN Ok(s2, left)
            ELSE IF expr.operator.lexeme # "or" /\ ~is_truthy(left) THEN Ok(s2, left)
            ELSE s2
        Right(s1) ==
            IF s1.sig # "ok" THEN s1
            ELSE Choose(s1.val, evaluate(expr.right, s1))
    IN Right(evaluate(expr.left, s))

Interpreter_visit_logical_expr(expr, s) ==
    LET Right(s1) ==
            IF s1.sig # "ok" THEN s1
            ELSE IF expr.operator.lexeme = "or" /\ is_truthy(s1.val) THEN s1
            ELSE IF expr.operator.lexeme # "or" /\ ~is_truthy(s1.val) THEN s1
            ELSE evaluate(expr.right, s1)
    IN Right(evaluate(expr.left, s))

Interpreter_visit_set_expr(expr, s) ==
    LET Store(object, s2) ==
            IF s2.sig # "ok" THEN s2
            ELSE LoxInstance_set(object.id, expr.name, s2.val, s2)
        Value(object, s1) ==
            IF s1.sig # "ok" THEN s1
            ELSE IF object.t # "inst"
            THEN Raise(s1, expr.name, Msg("Only instances have fields."))
            ELSE Store(object, evaluate(expr.value, s1))
        Object(s1) == Value(s1.val, s1)
    IN Object(evaluate(expr.object, s))

Interpreter_visit_get_expr(expr, s) ==
    LET Property(s1) ==
            IF s1.sig # "ok" THEN s1
            ELSE IF s1.val.t = "inst"
            THEN LoxInstance_get(s1.val.id, expr.name, s1)
            ELSE Raise(s1, expr.name, Msg("Only instances have properties."))
    IN Property(evaluate(expr.object, s))

Interpreter_visit_unary_expr(expr, s) ==
    LET Apply(right, s1) ==
            IF s1.sig # "ok" THEN s1
            ELSE IF expr.operator.lexeme = "!" THEN Ok(s1, Bool(~is_truthy(right)))
            ELSE IF expr.operator.lexeme = "-"
            THEN IF ~IsFloat(right)
                 THEN Raise(s1, expr.operator, Msg("Operand must be a number."))
                 ELSE Ok(s1, IF right.t = "nan" THEN right ELSE Num(-right.n))
            ELSE Ok(s1, Nil)
        Right(s1) == Apply(s1.val, s1)
    IN Right(evaluate(expr.right, s))

\* The arithmetic and comparison of two floats.  Numbers are integers here;
\* `/` is exact on the operands used and gives NaN for a zero divisor.
Arith(operator, left, right) ==
    IF operator \in {">", ">=", "<", "<="}
    THEN IF left.t = "nan" \/ right.t = "nan" THEN Bool(FALSE)
         ELSE Bool(CASE operator = ">" -> left.n > right.n
                     [] operator = ">=" -> left.n >= right.n
                     [] operator = "<" -> left.n < right.n
                     [] operator = "<=" -> left.n <= right.n)
    ELSE IF left.t = "nan" \/ right.t = "nan" THEN [t |-> "nan"]
    ELSE CASE operator = "-" -> Num(left.n - right.n)
           [] operator = "+" -> Num(left.n + right.n)
           [] operator = "*" -> Num(left.n * right.n)
           [] operator = "/" -> IF right.n = 0 THEN [t |-> "nan"]
                                ELSE Num(left.n \div right.n)

Interpreter_visit_binary_expr(expr, s) ==
    LET operator == expr.operator.lexeme
        Apply(left, right, s2) ==
            IF s2.sig # "ok" THEN s2
            ELSE IF operator \in {">", ">=", "<", "<=", "-", "/", "*"}
            THEN \* check_number_operands
                 IF IsFloat(left) /\ IsFloat(right)
                 THEN Ok(s2, Arith(operator, left, right))
                 ELSE Raise(s2, expr.operator, Msg("Operands must be numbers."))
            ELSE IF operator = "+"
            THEN IF IsFloat(left) /\ IsFloat(right)
                 THEN Ok(s2, Arith("+", left, right))
                 ELSE IF left.t = "str" /\ right.t = "str"
                 THEN Ok(s2, [t |-> "str", s |-> left.s \o right.s])
                 ELSE Raise(s2, expr.operator,
                            Msg("Operands must be two numbers or two strings."))
            ELSE IF operator = "!=" THEN Ok(s2, Bool(~is_equal(left, right)))
            ELSE IF operator = "==" THEN Ok(s2, Bool(is_equal(left, right)))
            ELSE Ok(s2, Nil)
        Right(left, s2) == Apply(left, s2.val, s2)
        Left(s1) == IF s1.sig # "ok" THEN s1
                    ELSE Right(s1.val, evaluate(expr.right, s1))
    IN Left(evaluate(expr.left, s))

\* expr.accept(interpreter)
evaluate(expr, s) ==
    CASE expr.k = "Literal" -> Ok(s, expr.value)
      [] expr.k = "Logical" -> Interpreter_visit_logical_expr(expr, s)
      [] expr.k = "Set" -> Interpreter_visit_set_expr(expr, s)
      [] expr.k = "Super" -> Interpreter_visit_super_expr(expr, s)
      [] expr.k = "This" -> look_up_variable(expr.keyword, expr, s)
      [] expr.k = "Unary" -> Interpreter_visit_unary_expr(expr, s)
      [] expr.k = "Variable" -> look_up_variable(expr.name, expr, s)
      [] expr.k = "Binary" -> Interpreter_visit_binary_expr(expr, s)
      [] expr.k = "Call" -> Interpreter_visit_call_expr(expr, s)
      [] expr.k = "Get" -> Interpreter_visit_get_expr(expr, s)
      [] expr.k = "Grouping" -> evaluate(expr.expr, s)
      [] expr.k = "Assign" -> Interpreter_visit_assign_expr(expr, s)

\* methods[method.name.lexeme] = LoxFunction(method, self.env, is_initializer)
RECURSIVE MakeMethods(_, _, _, _)
MakeMethods(methods, i, acc, s) ==
    IF i > Len(methods) THEN [s EXCEPT !.val = acc]
    ELSE LET s1 == LoxFunction(methods[i], s.env,
                               methods[i].name.lexeme = "init", s)
         IN MakeMethods(methods, i + 1,
                        (methods[i].name.lexeme :> s1.val.id) @@ acc, s1)

\* What a class declaration leaves in the history: the class made, the
\* current environment and the number of environments before it, the
\* current environment after it and what the class name is bound to there
ClassDeclared(stmt, cls, s, after, es) ==
    [cls |-> cls, name |-> stmt.name.lexeme, env |-> s.env, envs |-> Len(s.envs),
     after |-> after,
     value |-> IF stmt.name.lexeme \in DOMAIN es[after].values
               THEN es[after].values[stmt.name.lexeme] ELSE NoNode]

\* A visit_class_stmt that stays in the environment it made for `super`
Interpreter_visit_class_stmt_stays(stmt, s) ==
    LET Assigned(cls, s6) ==
            LET r == assign(s6.envs, s6.env, stmt.name, ClassVal(cls))
            IN IF r.err # NoNode THEN RaiseRec(s6, r.err)
               ELSE [s6 EXCEPT !.envs = r.es,
                               !.decls = Append(@, ClassDeclared(stmt, cls, s, s6.env,
                                                                 r.es))]
        Closed(cls, s5) ==
            Assigned(cls, s5)
        Built(superclass, s4) ==
            Closed(Len(s4.classes) + 1,
                   [s4 EXCEPT !.classes = Append(@, [name |-> stmt.name.lexeme,
                                                     superclass |-> superclass,
                                                     methods |-> s4.val])])
        Methods(superclass, s3) ==
            Built(superclass, MakeMethods(stmt.methods, 1, [x \in {} |-> 0], s3))
        Opened(superclass, s2) ==
            Methods(superclass,
                    IF stmt.superclass = NoNode THEN s2
                    ELSE [s2 EXCEPT !.envs = define(Environment(@, s2.env),
                                                    Len(s2.envs) + 1,
                                                    "super", ClassVal(superclass)),
                                    !.env = Len(s2.envs) + 1])
        Declared(superclass, s1) ==
            Opened(superclass,
                   [s1 EXCEPT !.envs = define(@, s1.env, stmt.name.lexeme, Nil)])
        Superclass(s1) ==
            IF s1.sig # "ok" THEN s1
            ELSE IF s1.val.t # "class"
            THEN Raise(s1, stmt.superclass.name, Msg("Superclass must be a class."))
            ELSE Declared(s1.val.id, s1)
    IN IF stmt.superclass = NoNode THEN Declared(0, s)
       ELSE Superclass(evaluate(stmt.superclass, s))

Interpreter_visit_class_stmt(stmt, s) ==
    LET Assigned(cls, s6) ==
            LET r == assign(s6.envs, s6.env, stmt.name, ClassVal(cls))
            IN IF r.err # NoNode THEN RaiseRec(s6, r.err)
               ELSE [s6 EXCEPT !.envs = r.es,
                               !.decls = Append(@, ClassDeclared(stmt, cls, s, s6.env,
                                                                 r.es))]
        Closed(cls, s5) ==
            Assigned(cls, IF stmt.superclass = NoNode THEN s5
                          ELSE [s5 EXCEPT !.env = s5.envs[s5.env].enclosing])
        Built(superclass, s4) ==
            Closed(Len(s4.classes) + 1,
                   [s4 EXCEPT !.classes = Append(@, [name |-> stmt.name.lexeme,
                                                     superclass |-> superclass,
                                                     methods |-> s4.val])])
        Methods(superclass, s3) ==
            Built(superclass, MakeMethods(stmt.methods, 1, [x \in {} |-> 0], s3))
        Opened(superclass, s2) ==
            Methods(superclass,
                    IF stmt.superclass = NoNode THEN s2
                    ELSE [s2 EXCEPT !.envs = define(Environment(@, s2.env),
                                                    Len(s2.envs) + 1,
                                                    "super", ClassVal(superclass)),
                                    !.env = Len(s2.envs) + 1])
        Declared(superclass, s1) ==
            Opened(superclass,
                   [s1 EXCEPT !.envs = define(@, s1.env, stmt.name.lexeme, Nil)])
        Superclass(s1) ==
            IF s1.sig # "ok" THEN s1
            ELSE IF s1.val.t # "class"
            THEN Raise(s1, stmt.superclass.name, Msg("Superclass must be a class."))
            ELSE Declared(s1.val.id, s1)
    IN IF stmt.superclass = NoNode THEN Declared(0, s)
       ELSE Superclass(evaluate(stmt.superclass, s))

\* Interpreter.visit_while_stmt
WhileLoop(stmt, s) ==
    IF s.steps >= MaxSteps THEN [s EXCEPT !.sig = "cut"]
    ELSE LET Again(s2) == IF s2.sig # "ok" THEN s2 ELSE WhileLoop(stmt, s2)
             Body(s1) == IF s1.sig # "ok" THEN s1
                         ELSE IF ~is_truthy(s1.val) THEN s1
                         ELSE Again(execute(stmt.body, s1))
         IN Body(evaluate(stmt.condition, s))

\* stmt.accept(interpreter)
ExecuteStmt(stmt, s) ==
    CASE stmt.k = "Block" ->
            execute_block(stmt.statements, Len(s.envs) + 1,
                          [s EXCEPT !.envs = Environment(@, s.env)])
      [] stmt.k = "Class" -> Interpreter_visit_class_stmt(stmt, s)
      [] stmt.k = "Expression" -> evaluate(stmt.expr, s)
      [] stmt.k = "Function" ->
            LET s1 == LoxFunction(stmt, s.env, FALSE, s)
            IN [s1 EXCEPT !.envs = define(@, s1.env, stmt.name.lexeme, s1.val)]
      [] stmt.k = "If" ->
            LET Branch(s1) ==
                    IF s1.sig # "ok" THEN s1
                    ELSE IF is_truthy(s1.val) THEN execute(stmt.then_branch, s1)
                    ELSE IF stmt.else_branch # NoNode
                    THEN execute(stmt.else_branch, s1)
                    ELSE s1
            IN Branch(evaluate(stmt.condition, s))
      [] stmt.k = "Print" ->
            LET Write(s1) ==
                    IF s1.sig # "ok" THEN s1
                    ELSE [s1 EXCEPT !.out = Append(@, stringify(s1.val, s1))]
            IN Write(evaluate(stmt.expr, s))
      [] stmt.k = "Return" ->
            LET Raised(s1) ==
                    IF s1.sig # "ok" THEN s1 ELSE [s1 EXCEPT !.sig = "return"]
            IN Raised(IF stmt.value = NoNode THEN Ok(s, Nil)
                      ELSE evaluate(stmt.value, s))
      [] stmt.k = "Var" ->
            LET Bind(s1) ==
                    IF s1.sig # "ok" THEN s1
                    ELSE [s1 EXCEPT !.envs = define(@, s1.env, stmt.name.lexeme,
                                                    s1.val)]
            IN Bind(IF stmt.initializer = NoNode THEN Ok(s, Nil)
                        ELSE evaluate(stmt.initializer, s))
      [] stmt.k = "While" -> WhileLoop(stmt, s)

\* Interpreter.execute, counting the statements of the run
execute(stmt, s) ==
    IF s.steps >= MaxSteps THEN [s EXCEPT !.sig = "cut"]
    ELSE ExecuteStmt(stmt, [s EXCEPT !.steps = @ + 1])

\* Interpreter.interpret
interpret(stmts, s) == ExecuteAll(stmts, 1, s)

----------------------------------------------------------------------------
(* Parser (parser.py).  A parser state p holds the fields of the Parser    *)
(* object (tokens, current, errors) and how the last call ended:           *)
(*   sig = "ok"     it returned; val is what it returned                   *)
(*   sig = "error"  LoxParseError is propagating                           *)
(* and three records of its history: `depth`, the declaration() calls in    *)
(* progress; `raised`, the LoxParseErrors raised, each with the depth it    *)
(* was raised at; `log`, the declaration() calls that caught one; `turns`,  *)
(* the turns of the loops of block() and class_declaration().               *)
(* `current` counts from 0 as in the code: the current token is            *)
(* tokens[current + 1].                                                    *)

MAXIMUM_ARGS_NUMBER == 255

\* The turns of a loop over a list are evaluated 2^TurnsLog at a time
TurnsLog == 5

\* The words and signs of a source, with the TokenType the Scanner gives each
ReservedWords ==
    {"and", "class", "else", "false", "fun", "for", "if", "nil", "or", "print",
     "return", "super", "this", "true", "var", "while"}

Signs ==
    [x \in {"(", ")", "{", "}", ",", ".", "-", "+", ";", "/", "*", "!", "!=", "=",
            "==", ">", ">=", "<", "<="} |->
        CASE x = "(" -> "LEFT_PAREN" [] x = ")" -> "RIGHT_PAREN"
          [] x = "{" -> "LEFT_BRACE" [] x = "}" -> "RIGHT_BRACE"
          [] x = "," -> "COMMA" [] x = "." -> "DOT" [] x = "-" -> "MINUS"
          [] x = "+" -> "PLUS" [] x = ";" -> "SEMICOLON" [] x = "/" -> "SLASH"
          [] x = "*" -> "STAR" [] x = "!" -> "BANG" [] x = "!=" -> "BANG_EQUAL"
          [] x = "=" -> "EQUAL" [] x = "==" -> "EQUAL_EQUAL" [] x = ">" -> "GREATER"
          [] x = ">=" -> "GREATER_EQUAL" [] x = "<" -> "LESS"
          [] x = "<=" -> "LESS_EQUAL"]

Numerals == [x \in {"0", "1", "2", "3"} |->
                CASE x = "0" -> 0 [] x = "1" -> 1 [] x = "2" -> 2 [] x = "3" -> 3]

\* String literals are written 's' here; the literal is the text between
Strings == {"'s'", "'t'"}

Upper(word) ==
    CASE word = "and" -> "AND" [] word = "class" -> "CLASS" [] word = "else" -> "ELSE"
      [] word = "false" -> "FALSE" [] word = "fun" -> "FUN" [] word = "for" -> "FOR"
      [] word = "if" -> "IF" [] word = "nil" -> "NIL" [] word = "or" -> "OR"
      [] word = "print" -> "PRINT" [] word = "return" -> "RETURN"
      [] word = "super" -> "SUPER" [] word = "this" -> "THIS" [] word = "true" -> "TRUE"
      [] word = "var" -> "VAR" [] word = "while" -> "WHILE"

\* The i-th Token of the r-th Scanner, for a lexeme
Token(lexeme, i, r) ==
    [type |-> IF lexeme \in ReservedWords THEN Upper(lexeme)
              ELSE IF lexeme \in DOMAIN Signs THEN Signs[lexeme]
              ELSE IF lexeme \in DOMAIN Numerals THEN "NUMBER"
              ELSE IF lexeme \in Strings THEN "STRING"
              ELSE "IDENTIFIER",
     lexeme |-> lexeme,
     literal |-> IF lexeme \in DOMAIN Numerals THEN Num(Numerals[lexeme])
                 ELSE IF lexeme \in Strings THEN Str(lexeme)
                 ELSE Nil,
     line |-> 1, pos |-> <<i>>, scan |-> r]

\* Scanner(source).scan_tokens(): the Tokens of the lexemes, then EOF
scan_tokens(lexemes, r) ==
    [i \in 1..(Len(lexemes) + 1) |->
        IF i <= Len(lexemes) THEN Token(lexemes[i], i, r)
        ELSE [type |-> "EOF", lexeme |-> "", literal |-> Nil, line |-> 1,
              pos |-> <<i>>, scan |-> r]]

Parser(tokens) ==
    [tokens |-> tokens, current |-> 0, errors |-> <<>>, sig |-> "ok", val |-> NoNode,
     depth |-> 0, raised |-> <<>>, log |-> <<>>, turns |-> <<>>]

peek(p) == p.tokens[p.current + 1]

\* tokens[current - 1]: the last token (EOF) when current is 0
previous(p) == IF p.current = 0 THEN p.tokens[Len(p.tokens)] ELSE p.tokens[p.current]

is_at_end(p) == peek(p).type = "EOF"

check(p, types) == ~is_at_end(p) /\ peek(p).type \in types

\* An advance() without its `if not self.is_at_end()`
advance_past_EOF(p) == [p EXCEPT !.current = @ + 1]

\* advance(): the parser after it; its result is previous() of that parser
advance(p) == IF is_at_end(p) THEN p ELSE [p EXCEPT !.current = @ + 1]

\* match(*types) when check(*types) holds
match(p) == advance(p)

\* error(token, message): the parser with the error recorded
error(p, token, message) ==
    [p EXCEPT !.errors = Append(@, [token |-> token, message |-> message])]

\* raise self.error(token, message)
RaiseParseError(p, token, message) ==
    [error(p, token, message) EXCEPT
        !.sig = "error",
        !.raised = Append(@, [token |-> token, message |-> message, depth |-> p.depth])]

Returns(p, value) == [p EXCEPT !.sig = "ok", !.val = value]

\* A turn of a loop that began with the parser p and ended with p1
Turn(p, p1, loop) ==
    [p1 EXCEPT !.turns = Append(@, [loop |-> loop, start |-> p.current,
                                    end |-> p1.current, sig |-> p1.sig])]

consume(p, token_type, message) ==
    IF check(p, {token_type}) THEN Returns(advance(p), peek(p))
    ELSE RaiseParseError(p, peek(p), message)

Anchors == {"CLASS", "FUN", "VAR", "FOR", "IF", "WHILE", "PRINT", "RETURN"}

\* The loop of synchronize()
RECURSIVE SynchronizeLoop(_)
SynchronizeLoop(p) ==
    IF is_at_end(p) THEN p
    ELSE IF previous(p).type = "SEMICOLON" \/ check(p, Anchors) THEN p
    ELSE SynchronizeLoop(advance(p))

\* A synchronize() that skips the one token the error was found at
synchronize_one_token(p) == advance(p)

synchronize(p) == SynchronizeLoop(advance(p))

RECURSIVE expression(_), assignment(_), BinaryLoop(_, _, _), BinaryLevel(_, _),
          unary(_), ArgumentsTurns(_, _), ArgumentsLoop(_), finish_call(_, _),
          CallLoop(_, _),
          Parser_call(_), primary(_)

primary(p) ==
    IF check(p, {"TRUE"}) THEN Returns(match(p), Literal(Bool(TRUE)))
    ELSE IF check(p, {"FALSE"}) THEN Returns(match(p), Literal(Bool(FALSE)))
    ELSE IF check(p, {"NIL"}) THEN Returns(match(p), Literal(Nil))
    ELSE IF check(p, {"NUMBER", "STRING"}) THEN Returns(match(p), Literal(peek(p).literal))
    ELSE IF check(p, {"THIS"}) THEN Returns(match(p), This(peek(p)))
    ELSE IF check(p, {"IDENTIFIER"}) THEN Returns(match(p), Variable(peek(p)))
    ELSE IF check(p, {"SUPER"}) THEN
        LET Method(p2) ==
                IF p2.sig = "error" THEN p2 ELSE Returns(p2, Super(peek(p), p2.val))
            Dot(p1) ==
                IF p1.sig = "error" THEN p1
                ELSE Method(consume(p1, "IDENTIFIER", Msg("Expect superclass method name.")))
        IN  Dot(consume(match(p), "DOT", Msg("Expect '.' after 'super'.")))
    ELSE IF check(p, {"LEFT_PAREN"}) THEN
        LET Paren(p2, expr) ==
                IF p2.sig = "error" THEN p2 ELSE Returns(p2, Grouping(expr))
            Expr(p1) ==
                IF p1.sig = "error" THEN p1
                ELSE Paren(consume(p1, "RIGHT_PAREN", Msg("Expect ')' after expression.")),
                           p1.val)
        IN  Expr(expression(match(p)))
    ELSE RaiseParseError(p, peek(p), Msg("Expect expression."))

\* A turn of finish_call that lets one argument more through
ArgumentsTurn_one_more(st) ==
    LET Argument(p1) ==
            IF p1.sig = "error" THEN [p |-> p1, list |-> st.list, more |-> FALSE]
            ELSE IF check(p1, {"COMMA"})
                 THEN [p |-> match(p1), list |-> Append(st.list, p1.val), more |-> TRUE]
                 ELSE [p |-> p1, list |-> Append(st.list, p1.val), more |-> FALSE]
    IN  Argument(expression(
            IF Len(st.list) > MAXIMUM_ARGS_NUMBER
            THEN error(st.p, peek(st.p), Msg("Can't have more than 255 arguments."))
            ELSE st.p))

\* One turn of the `while True` of finish_call; `more` says whether another
\* turn follows
ArgumentsTurn(st) ==
    LET Argument(p1) ==
            IF p1.sig = "error" THEN [p |-> p1, list |-> st.list, more |-> FALSE]
            ELSE IF check(p1, {"COMMA"})
                 THEN [p |-> match(p1), list |-> Append(st.list, p1.val), more |-> TRUE]
                 ELSE [p |-> p1, list |-> Append(st.list, p1.val), more |-> FALSE]
    IN  Argument(expression(
            IF Len(st.list) >= MAXIMUM_ARGS_NUMBER
            THEN error(st.p, peek(st.p), Msg("Can't have more than 255 arguments."))
            ELSE st.p))

\* Up to 2^k turns, evaluated in halves so that a list of several hundred
\* arguments is not several hundred calls deep
ArgumentsTurns(st, k) ==
    IF ~st.more THEN st
    ELSE IF k = 0 THEN ArgumentsTurn(st)
    ELSE ArgumentsTurns(ArgumentsTurns(st, k - 1), k - 1)

\* The `while True` of finish_call
ArgumentsLoop(st) == IF ~st.more THEN st ELSE ArgumentsLoop(ArgumentsTurns(st, TurnsLog))

finish_call(p, callee) ==
    LET Paren(p2, arguments) ==
            IF p2.sig = "error" THEN p2 ELSE Returns(p2, Call(callee, p2.val, arguments))
        Arguments(st) ==
            IF st.p.sig = "error" THEN st.p
            ELSE Paren(consume(st.p, "RIGHT_PAREN", Msg("Expect ')' after arguments.")),
                       st.list)
    IN  Arguments(ArgumentsLoop([p |-> p, list |-> <<>>,
                                 more |-> ~check(p, {"RIGHT_PAREN"})]))

\* The `while True` of call(), `expr` parsed so far
CallLoop(p, expr) ==
    IF check(p, {"LEFT_PAREN"}) THEN
        LET Finished(p1) == IF p1.sig = "error" THEN p1 ELSE CallLoop(p1, p1.val)
        IN  Finished(finish_call(match(p), expr))
    ELSE IF check(p, {"DOT"}) THEN
        LET Name(p1) == IF p1.sig = "error" THEN p1 ELSE CallLoop(p1, Get(expr, p1.val))
        IN  Name(consume(match(p), "IDENTIFIER", Msg("Expect property name after '.'.")))
    ELSE Returns(p, expr)

Parser_call(p) ==
    LET Primary(p1) == IF p1.sig = "error" THEN p1 ELSE CallLoop(p1, p1.val)
    IN  Primary(primary(p))

unary(p) ==
    IF check(p, {"BANG", "MINUS"}) THEN
        LET Right(p1) ==
                IF p1.sig = "error" THEN p1 ELSE Returns(p1, Unary(peek(p), p1.val))
        IN  Right(unary(match(p)))
    ELSE Parser_call(p)

\* logical_or ... factor: each is `expr = operand(); while match(types): ...`
LevelTypes(level) ==
    CASE level = "logical_or" -> {"OR"}
      [] level = "logical_and" -> {"AND"}
      [] level = "equality" -> {"BANG_EQUAL", "EQUAL_EQUAL"}
      [] level = "comparison" -> {"GREATER", "GREATER_EQUAL", "LESS", "LESS_EQUAL"}
      [] level = "term" -> {"MINUS", "PLUS"}
      [] level = "factor" -> {"SLASH", "STAR"}

LevelNode(level, expr, operator, right) ==
    IF level \in {"logical_or", "logical_and"} THEN Logical(expr, operator, right)
    ELSE Binary(expr, operator, right)

LevelOperand(level, p) ==
    CASE level = "logical_or" -> BinaryLevel("logical_and", p)
      [] level = "logical_and" -> BinaryLevel("equality", p)
      [] level = "equality" -> BinaryLevel("comparison", p)
      [] level = "comparison" -> BinaryLevel("term", p)
      [] level = "term" -> BinaryLevel("factor", p)
      [] level = "factor" -> unary(p)

BinaryLoop(level, p, expr) ==
    IF check(p, LevelTypes(level)) THEN
        LET Right(p1) ==
                IF p1.sig = "error" THEN p1
                ELSE BinaryLoop(level, p1, LevelNode(level, expr, peek(p), p1.val))
        IN  Right(LevelOperand(level, match(p)))
    ELSE Returns(p, expr)

\* A level that parses what follows its operator at the same level again:
\* its operators associate to the right
BinaryLevel_right(level, p) ==
    LET Right(p1, p2) ==
            IF p2.sig = "error" THEN p2
            ELSE Returns(p2, LevelNode(level, p1.val, peek(p1), p2.val))
        Left(p1) ==
            IF p1.sig = "error" THEN p1
            ELSE IF check(p1, LevelTypes(level))
            THEN Right(p1, BinaryLevel(level, match(p1)))
            ELSE p1
    IN  Left(LevelOperand(level, p))

BinaryLevel(level, p) ==
    LET Left(p1) == IF p1.sig = "error" THEN p1 ELSE BinaryLoop(level, p1, p1.val)
    IN  Left(LevelOperand(level, p))

logical_or(p) == BinaryLevel("logical_or", p)
logical_and(p) == BinaryLevel("logical_and", p)
equality(p) == BinaryLevel("equality", p)
comparison(p) == BinaryLevel("comparison", p)
term(p) == BinaryLevel("term", p)
factor(p) == BinaryLevel("factor", p)

\* An assignment() that gives up at an invalid target, as at any other error
assignment_raises(p) ==
    LET Value(p2, expr, equals) ==
            IF p2.sig = "error" THEN p2
            ELSE IF expr.k = "Variable" THEN Returns(p2, Assign(expr.name, p2.val))
            ELSE IF expr.k = "Get" THEN Returns(p2, Set(expr.object, expr.name, p2.val))
            ELSE RaiseParseError(p2, equals, Msg("Invalid assignment target."))
        Left(p1) ==
            IF p1.sig = "error" THEN p1
            ELSE IF check(p1, {"EQUAL"}) THEN Value(assignment(match(p1)), p1.val, peek(p1))
            ELSE p1
    IN  Left(logical_or(p))

assignment(p) ==
    LET Value(p2, expr, equals) ==
            IF p2.sig = "error" THEN p2
            ELSE IF expr.k = "Variable" THEN Returns(p2, Assign(expr.name, p2.val))
            ELSE IF expr.k = "Get" THEN Returns(p2, Set(expr.object, expr.name, p2.val))
            ELSE Returns(error(p2, equals, Msg("Invalid assignment target.")), expr)
        Left(p1) ==
            IF p1.sig = "error" THEN p1
            ELSE IF check(p1, {"EQUAL"}) THEN Value(assignment(match(p1)), p1.val, peek(p1))
            ELSE p1
    IN  Left(logical_or(p))

expression(p) == assignment(p)

RECURSIVE declaration(_), class_declaration(_), MethodsLoop(_, _), statement(_),
          for_statement(_), if_statement(_), while_statement(_), function(_, _),
          BlockLoop(_, _), block(_)

print_statement(p) ==
    LET Semicolon(p2, value) ==
            IF p2.sig = "error" THEN p2 ELSE Returns(p2, PrintStmt(value))
        Value(p1) ==
            IF p1.sig = "error" THEN p1
            ELSE Semicolon(consume(p1, "SEMICOLON", Msg("Expect ';' after value.")), p1.val)
    IN  Value(expression(p))

return_statement(p) ==
    LET Semicolon(p2, value) ==
            IF p2.sig = "error" THEN p2 ELSE Returns(p2, Return(previous(p), value))
        Value(p1) ==
            IF p1.sig = "error" THEN p1
            ELSE Semicolon(consume(p1, "SEMICOLON", Msg("Expect ';' after return value.")),
                           p1.val)
    IN  Value(IF check(p, {"SEMICOLON"}) THEN Returns(p, NoNode) ELSE expression(p))

var_declaration(p) ==
    LET Semicolon(p3, name, initializer) ==
            IF p3.sig = "error" THEN p3 ELSE Returns(p3, Var(name, initializer))
        Initializer(p2, name) ==
            IF p2.sig = "error" THEN p2
            ELSE Semicolon(consume(p2, "SEMICOLON", Msg("Expect ';' after expression.")),
                           name, p2.val)
        Name(p1) ==
            IF p1.sig = "error" THEN p1
            ELSE Initializer(IF check(p1, {"EQUAL"}) THEN expression(match(p1))
                             ELSE Returns(p1, NoNode),
                             p1.val)
    IN  Name(consume(p, "IDENTIFIER", Msg("Expect variable name.")))

expression_statement(p) ==
    LET Semicolon(p2, expr) ==
            IF p2.sig = "error" THEN p2 ELSE Returns(p2, Expression(expr))
        Expr(p1) ==
            IF p1.sig = "error" THEN p1
            ELSE Semicolon(consume(p1, "SEMICOLON", Msg("Expect ';' after expression.")),
                           p1.val)
    IN  Expr(expression(p))

while_statement(p) ==
    LET Body(p4, condition) ==
            IF p4.sig = "error" THEN p4 ELSE Returns(p4, While(condition, p4.val))
        RightParen(p3, condition) ==
            IF p3.sig = "error" THEN p3 ELSE Body(statement(p3), condition)
        Condition(p2) ==
            IF p2.sig = "error" THEN p2
            ELSE RightParen(consume(p2, "RIGHT_PAREN", Msg("Expect ')' after if condition.")),
                            p2.val)
        LeftParen(p1) == IF p1.sig = "error" THEN p1 ELSE Condition(expression(p1))
    IN  LeftParen(consume(p, "LEFT_PAREN", Msg("Expect '(' after if.")))

if_statement(p) ==
    LET Else(p5, condition, then_branch) ==
            IF p5.sig = "error" THEN p5
            ELSE Returns(p5, If(condition, then_branch, p5.val))
        Then(p4, condition) ==
            IF p4.sig = "error" THEN p4
            ELSE Else(IF check(p4, {"ELSE"}) THEN statement(match(p4))
                      ELSE Returns(p4, NoNode),
                      condition, p4.val)
        RightParen(p3, condition) ==
            IF p3.sig = "error" THEN p3 ELSE Then(statement(p3), condition)
        Condition(p2) ==
            IF p2.sig = "error" THEN p2
            ELSE RightParen(consume(p2, "RIGHT_PAREN", Msg("Expect ')' after if condition.")),
                            p2.val)
        LeftParen(p1) == IF p1.sig = "error" THEN p1 ELSE Condition(expression(p1))
    IN  LeftParen(consume(p, "LEFT_PAREN", Msg("Expect '(' after if.")))

\* The desugaring at the end of for_statement()
\* A desugaring that puts the increment before the body
ForLoop_increment_first(initializer, condition, increment, body) ==
    LET body1 == IF increment # NoNode THEN Block(<<Expression(increment), body>>) ELSE body
        body2 == While(IF condition = NoNode THEN Literal(Bool(TRUE)) ELSE condition, body1)
    IN  IF initializer # NoNode THEN Block(<<initializer, body2>>) ELSE body2

ForLoop(initializer, condition, increment, body) ==
    LET body1 == IF increment # NoNode THEN Block(<<body, Expression(increment)>>) ELSE body
        body2 == While(IF condition = NoNode THEN Literal(Bool(TRUE)) ELSE condition, body1)
    IN  IF initializer # NoNode THEN Block(<<initializer, body2>>) ELSE body2

for_statement(p) ==
    LET Body(p7, initializer, condition, increment) ==
            IF p7.sig = "error" THEN p7
            ELSE Returns(p7, ForLoop(initializer, condition, increment, p7.val))
        RightParen(p6, initializer, condition, increment) ==
            IF p6.sig = "error" THEN p6
            ELSE Body(statement(p6), initializer, condition, increment)
        Increment(p5, initializer, condition) ==
            IF p5.sig = "error" THEN p5
            ELSE RightParen(consume(p5, "RIGHT_PAREN", Msg("Expect ')' after for clauses.")),
                            initializer, condition, p5.val)
        Semicolon(p4, initializer, condition) ==
            IF p4.sig = "error" THEN p4
            ELSE Increment(IF check(p4, {"RIGHT_PAREN"}) THEN Returns(p4, NoNode)
                           ELSE expression(p4),
                           initializer, condition)
        Condition(p3, initializer) ==
            IF p3.sig = "error" THEN p3
            ELSE Semicolon(consume(p3, "SEMICOLON", Msg("Expect ';' after loop condition.")),
                           initializer, p3.val)
        Initializer(p2) ==
            IF p2.sig = "error" THEN p2
            ELSE Condition(IF check(p2, {"SEMICOLON"}) THEN Returns(p2, NoNode)
                           ELSE expression(p2),
                           p2.val)
        LeftParen(p1) ==
            IF p1.sig = "error" THEN p1
            ELSE Initializer(IF check(p1, {"SEMICOLON"}) THEN Returns(match(p1), NoNode)
                             ELSE IF check(p1, {"VAR"}) THEN var_declaration(match(p1))
                             ELSE expression_statement(p1))
    IN  LeftParen(consume(p, "LEFT_PAREN", Msg("Expect '(' after if.")))

\* The `while not (check(RIGHT_BRACE) or is_at_end())` of block()
BlockLoop(p, statements) ==
    IF check(p, {"RIGHT_BRACE"}) \/ is_at_end(p) THEN Returns(p, statements)
    ELSE LET Declared(p1) ==
                 BlockLoop(Turn(p, p1, "block"),
                           IF p1.val # NoNode THEN Append(statements, p1.val)
                           ELSE statements)
         IN  Declared(declaration(p))

block(p) ==
    LET RightBrace(p2, statements) ==
            IF p2.sig = "error" THEN p2 ELSE Returns(p2, statements)
        Statements(p1) ==
            RightBrace(consume(p1, "RIGHT_BRACE", Msg("Expect '}' after expression.")),
                       p1.val)
    IN  Statements(BlockLoop(p, <<>>))

\* One turn of the `while True` of function()
ParametersTurn(st) ==
    LET Parameter(p1) ==
            IF p1.sig = "error" THEN [p |-> p1, list |-> st.list, more |-> FALSE]
            ELSE IF check(p1, {"COMMA"})
                 THEN [p |-> match(p1), list |-> Append(st.list, p1.val), more |-> TRUE]
                 ELSE [p |-> p1, list |-> Append(st.list, p1.val), more |-> FALSE]
    IN  Parameter(consume(
            IF Len(st.list) >= MAXIMUM_ARGS_NUMBER
            THEN error(st.p, peek(st.p), Msg("Can't have more than 255 parameters."))
            ELSE st.p,
            "IDENTIFIER", Msg("Expect parameter name")))

RECURSIVE ParametersTurns(_, _)
ParametersTurns(st, k) ==
    IF ~st.more THEN st
    ELSE IF k = 0 THEN ParametersTurn(st)
    ELSE ParametersTurns(ParametersTurns(st, k - 1), k - 1)

\* The `while True` of function()
RECURSIVE ParametersLoop(_)
ParametersLoop(st) == IF ~st.more THEN st ELSE ParametersLoop(ParametersTurns(st, TurnsLog))

KindMsg(text, kind) == [msg |-> text, kind |-> kind]

function(p, kind) ==
    LET Body(p5, name, parameters) ==
            IF p5.sig = "error" THEN p5 ELSE Returns(p5, Function(name, parameters, p5.val))
        LeftBrace(p4, name, parameters) ==
            IF p4.sig = "error" THEN p4 ELSE Body(block(p4), name, parameters)
        RightParen(p3, name, parameters) ==
            IF p3.sig = "error" THEN p3
            ELSE LeftBrace(consume(p3, "LEFT_BRACE", KindMsg("Expect '{' before {kind} body.", kind)),
                           name, parameters)
        Parameters(st, name) ==
            IF st.p.sig = "error" THEN st.p
            ELSE RightParen(consume(st.p, "RIGHT_PAREN", Msg("Expect ')' after parameters.")),
                            name, st.list)
        LeftParen(p1, name) ==
            IF p1.sig = "error" THEN p1
            ELSE Parameters(ParametersLoop([p |-> p1, list |-> <<>>,
                                            more |-> ~check(p1, {"RIGHT_PAREN"})]),
                            name)
        Name(p0) ==
            IF p0.sig = "error" THEN p0
            ELSE LeftParen(consume(p0, "LEFT_PAREN", KindMsg("Expect '(' after {kind} name.", kind)),
                           p0.val)
    IN  Name(consume(p, "IDENTIFIER", KindMsg("Expect {kind} name.", kind)))

\* The `while not (check(RIGHT_BRACE) or is_at_end())` of class_declaration()
MethodsLoop(p, methods) ==
    IF check(p, {"RIGHT_BRACE"}) \/ is_at_end(p) THEN Returns(p, methods)
    ELSE LET Method(p1) ==
                 IF p1.sig = "error" THEN Turn(p, p1, "class_declaration")
                 ELSE MethodsLoop(Turn(p, p1, "class_declaration"),
                                  Append(methods, p1.val))
         IN  Method(function(p, "method"))

class_declaration(p) ==
    LET RightBrace(p5, name, superclass, methods) ==
            IF p5.sig = "error" THEN p5 ELSE Returns(p5, Class(name, superclass, methods))
        Methods(p4, name, superclass) ==
            IF p4.sig = "error" THEN p4
            ELSE RightBrace(consume(p4, "RIGHT_BRACE", Msg("Expect '}' after class body.")),
                            name, superclass, p4.val)
        LeftBrace(p3, name, superclass) ==
            IF p3.sig = "error" THEN p3 ELSE Methods(MethodsLoop(p3, <<>>), name, superclass)
        Superclass(p2, name) ==
            IF p2.sig = "error" THEN p2
            ELSE LeftBrace(consume(p2, "LEFT_BRACE", Msg("Expect '{' before class body.")),
                           name, IF p2.val = NoNode THEN NoNode ELSE Variable(p2.val))
        Name(p1) ==
            IF p1.sig = "error" THEN p1
            ELSE Superclass(IF check(p1, {"LESS"})
                            THEN consume(match(p1), "IDENTIFIER", Msg("Expect superclass name."))
                            ELSE Returns(p1, NoNode),
                            p1.val)
    IN  Name(consume(p, "IDENTIFIER", Msg("Expect class name.")))

statement(p) ==
    IF check(p, {"FOR"}) THEN for_statement(match(p))
    ELSE IF check(p, {"IF"}) THEN if_statement(match(p))
    ELSE IF check(p, {"PRINT"}) THEN print_statement(match(p))
    ELSE IF check(p, {"RETURN"}) THEN return_statement(match(p))
    ELSE IF check(p, {"WHILE"}) THEN while_statement(match(p))
    ELSE IF check(p, {"LEFT_BRACE"}) THEN
        LET Statements(p1) == IF p1.sig = "error" THEN p1 ELSE Returns(p1, Block(p1.val))
        IN  Statements(block(match(p)))
    ELSE expression_statement(p)

\* declaration(): `depth` counts the declaration() calls in progress
declaration(p) ==
    LET Synchronized(p2) ==
            [p2 EXCEPT !.sig = "ok", !.val = NoNode, !.depth = p.depth,
                       !.log = Append(@, [start |-> p.current, depth |-> p.depth + 1,
                                          end |-> p2.current])]
        Tried(p1) ==
            IF p1.sig = "error" THEN Synchronized(synchronize(p1))
            ELSE [p1 EXCEPT !.depth = p.depth]
        Try(p0) ==
            IF check(p0, {"CLASS"}) THEN class_declaration(match(p0))
            ELSE IF check(p0, {"FUN"}) THEN function(match(p0), "function")
            ELSE IF check(p0, {"VAR"}) THEN var_declaration(match(p0))
            ELSE statement(p0)
    IN  Tried(Try([p EXCEPT !.depth = @ + 1]))

----------------------------------------------------------------------------
(* Sources.  A source is the text of a file or of a REPL line, given by    *)
(* what Scanner and Parser make of it: the number of errors each records   *)
(* and the statements parse() returns.  All tokens are on line 1.          *)

T(x) == Tok(x, 1)
V(x) == Variable(T(x))
S(x) == Literal(Str(x))
N(n) == Literal(Num(n))
CallOf(callee, arguments) == Call(callee, T(")"), arguments)
Bin(left, o, right) == Binary(left, T(o), right)
Fun(name, params, body) ==
    Function(T(name), [i \in DOMAIN params |-> T(params[i])], body)
Ret(value) == Return(T("return"), value)
VarS(name, initializer) == Var(T(name), initializer)
Cls(name, superclass, methods) ==
    Class(T(name), IF superclass = "" THEN NoNode ELSE V(superclass), methods)
PrintS(x) == PrintStmt(S(x))
PrintV(x) == PrintStmt(V(x))

Source(fam, stmts) ==
    [fam |-> fam, scan_errors |-> 0, parse_errors |-> 0, stmts |-> stmts]

\* var a = "global"; { fun f() { print a; } f(); [var a = "local";] f(); print a; }
ShadowSrc(late) ==
    Source([f |-> "shadow", late |-> late],
        <<VarS("a", S("global")),
          Block(<<Fun("f", <<>>, <<PrintV("a")>>),
                  Expression(CallOf(V("f"), <<>>))>>
                \o (IF late THEN <<VarS("a", S("local"))>> ELSE <<>>)
                \o <<Expression(CallOf(V("f"), <<>>)), PrintV("a")>>)>>)

\* { var a = "outer"; { fun f() { print a; } [var a = "inner";] f(); } }
ShadowLocalSrc(late) ==
    Source([f |-> "shadowlocal", late |-> late],
        <<Block(<<VarS("a", S("outer")),
                  Block(<<Fun("f", <<>>, <<PrintV("a")>>)>>
                        \o (IF late THEN <<VarS("a", S("inner"))>> ELSE <<>>)
                        \o <<Expression(CallOf(V("f"), <<>>))>>)>>)>>)

\* var a = "global"; { fun f() { a = "set"; } var a = "local"; f(); print a; } print a;
ShadowAssignSrc ==
    Source([f |-> "shadowassign"],
        <<VarS("a", S("global")),
          Block(<<Fun("f", <<>>, <<Expression(Assign(T("a"), S("set")))>>),
                  VarS("a", S("local")),
                  Expression(CallOf(V("f"), <<>>)),
                  PrintV("a")>>),
          PrintV("a")>>)

\* for (var i = 0; i < n; i = i + 1) print i;   as Parser.for_statement builds it
ForSrc(n) ==
    Source([f |-> "for", n |-> n],
        <<Block(<<VarS("i", N(0)),
                  While(Bin(V("i"), "<", N(n)),
                        Block(<<PrintV("i"),
                                Expression(Assign(T("i"), Bin(V("i"), "+", N(1))))>>))>>)>>)

\* fun mk() { var c = 0; fun inc() { c = c + 1; return c; } return inc; }
\* var g = mk(); print g(); print g();
CounterSrc ==
    Source([f |-> "counter"],
        <<Fun("mk", <<>>,
              <<VarS("c", N(0)),
                Fun("inc", <<>>,
                    <<Expression(Assign(T("c"), Bin(V("c"), "+", N(1)))),
                      Ret(V("c"))>>),
                Ret(V("inc"))>>),
          VarS("g", CallOf(V("mk"), <<>>)),
          PrintStmt(CallOf(V("g"), <<>>)),
          PrintStmt(CallOf(V("g"), <<>>))>>)

\* The statement that holds `return X;` (X absent when bare) at nesting
\* `kind`, followed where the grammar allows by statements that must not run
ReturnAt(kind, value) ==
    CASE kind = "plain" -> <<Ret(value), PrintS("dead")>>
      [] kind = "block" -> <<Block(<<Ret(value), PrintS("dead")>>), PrintS("dead")>>
      [] kind = "if" -> <<If(Literal(Bool(TRUE)), Ret(value), NoNode), PrintS("dead")>>
      [] kind = "else" ->
            <<If(Literal(Nil), PrintS("dead"), Block(<<Ret(value)>>)), PrintS("dead")>>
      [] kind = "while" ->
            <<While(Literal(Bool(TRUE)), Block(<<Ret(value), PrintS("dead")>>)),
              PrintS("dead")>>
      [] kind = "deep" ->
            <<While(Literal(Bool(TRUE)),
                    Block(<<If(Literal(Bool(TRUE)),
                               Block(<<Block(<<Ret(value)>>), PrintS("dead")>>),
                               NoNode),
                            PrintS("dead")>>)),
              PrintS("dead")>>

ReturnKinds == {"plain", "block", "if", "else", "while", "deep"}

\* fun f() { <return at kind> } { var c = "caller"; print f(); print c; }
ReturnSrc(kind, bare) ==
    Source([f |-> "return", kind |-> kind, bare |-> bare],
        <<Fun("f", <<>>, ReturnAt(kind, IF bare THEN NoNode ELSE S("r"))),
          Block(<<VarS("c", S("caller")),
                  PrintStmt(CallOf(V("f"), <<>>)),
                  PrintV("c")>>)>>)

\* fun g() { fun h() { <return "r" at kind> } print h(); print "mid"; return "g"; }
\* print g();
ReturnInnerSrc(kind) ==
    Source([f |-> "returninner", kind |-> kind],
        <<Fun("g", <<>>,
              <<Fun("h", <<>>, ReturnAt(kind, S("r"))),
                PrintStmt(CallOf(V("h"), <<>>)),
                PrintS("mid"),
                Ret(S("g"))>>),
          PrintStmt(CallOf(V("g"), <<>>))>>)

\* class A { init() { this.x = "set"; [return;] } }
\* var a = A(); print a.init() == a; print a.x;
InitSrc(ret) ==
    Source([f |-> "init", ret |-> ret],
        <<Cls("A", "",
              <<Fun("init", <<>>,
                    <<Expression(Set(This(T("this")), T("x"), S("set")))>>
                    \o (IF ret THEN <<Ret(NoNode)>> ELSE <<>>))>>),
          VarS("a", CallOf(V("A"), <<>>)),
          PrintStmt(Bin(CallOf(Get(V("a"), T("init")), <<>>), "==", V("a"))),
          PrintStmt(Get(V("a"), T("x")))>>)

\* class A { init(n) { this.n = n; if (n) return; this.n = "falsy"; } }
\* var a = A(nil); var b = a.init(1); print b == a; print b.n;
InitArgSrc ==
    Source([f |-> "initarg"],
        <<Cls("A", "",
              <<Fun("init", <<"n">>,
                    <<Expression(Set(This(T("this")), T("n"), V("n"))),
                      If(V("n"), Ret(NoNode), NoNode),
                      Expression(Set(This(T("this")), T("n"), S("falsy")))>>)>>),
          VarS("a", CallOf(V("A"), <<Literal(Nil)>>)),
          PrintStmt(Get(V("a"), T("n"))),
          VarS("b", CallOf(Get(V("a"), T("init")), <<N(1)>>)),
          PrintStmt(Bin(V("b"), "==", V("a"))),
          PrintStmt(Get(V("b"), T("n")))>>)

\* The values a field is set to: a literal, the class K or the instance o
FieldValues == {"nil", "false", "zero", "string", "class", "instance"}
FieldValue(v) ==
    CASE v = "nil" -> Literal(Nil)
      [] v = "false" -> Literal(Bool(FALSE))
      [] v = "zero" -> N(0)
      [] v = "string" -> S("s")
      [] v = "class" -> V("K")
      [] v = "instance" -> V("o")

\* class J { m() { return "J.m"; } j() {} } class K < J { m() { return "K.m"; } }
\* var o = K(); o.<name> = <v>; print o.<name> == <v>;
FieldSrc(name, v) ==
    Source([f |-> "field", name |-> name, v |-> v],
        <<Cls("J", "", <<Fun("m", <<>>, <<Ret(S("J.m"))>>), Fun("j", <<>>, <<>>)>>),
          Cls("K", "J", <<Fun("m", <<>>, <<Ret(S("K.m"))>>)>>),
          VarS("o", CallOf(V("K"), <<>>)),
          Expression(Set(V("o"), T(name), FieldValue(v))),
          PrintStmt(Bin(Get(V("o"), T(name)), "==", FieldValue(v)))>>)

\* ... var o = K(); print o.<name>();     (no field is set)
MethodSrc(name) ==
    Source([f |-> "method", name |-> name],
        <<Cls("J", "", <<Fun("m", <<>>, <<Ret(S("J.m"))>>),
                         Fun("j", <<>>, <<Ret(S("J.j"))>>)>>),
          Cls("K", "J", <<Fun("m", <<>>, <<Ret(S("K.m"))>>)>>),
          VarS("o", CallOf(V("K"), <<>>)),
          PrintStmt(CallOf(Get(V("o"), T(name)), <<>>))>>)

SuperM == Expression(CallOf(Super(T("super"), T("m")), <<>>))

\* The body of method t of class B < A, using `super`
SuperBody(kind) ==
    CASE kind = "direct" -> <<SuperM>>                       \* super.m();
      [] kind = "block" -> <<Block(<<SuperM>>)>>             \* { super.m(); }
      [] kind = "twice" -> <<SuperM, Block(<<SuperM>>)>>     \* super.m(); { super.m(); }
      [] kind = "closure" ->                                 \* fun g() { super.m(); } g();
            <<Fun("g", <<>>, <<SuperM>>), Expression(CallOf(V("g"), <<>>))>>
      [] kind = "missing" ->                                 \* super.nope();
            <<Expression(CallOf(Super(T("super"), T("nope")), <<>>))>>

SuperKinds == {"direct", "block", "twice", "closure", "missing"}

\* class A { m() { print "A"; } }
\* class B < A { m() { print "B"; } t() { <body> } }
\* class C < B { m() { print "C"; } }
\* <cls>().t();
SuperSrc(kind, cls) ==
    Source([f |-> "super", kind |-> kind, cls |-> cls],
        <<Cls("A", "", <<Fun("m", <<>>, <<PrintS("A")>>)>>),
          Cls("B", "A", <<Fun("m", <<>>, <<PrintS("B")>>),
                          Fun("t", <<>>, SuperBody(kind))>>),
          Cls("C", "B", <<Fun("m", <<>>, <<PrintS("C")>>)>>),
          Expression(CallOf(Get(CallOf(V(cls), <<>>), T("t")), <<>>))>>)

\* class A { m() { print "A"; } } class B < A { m() { super.m(); print "B"; } } B().m();
SuperScenarioSrc ==
    Source([f |-> "superscenario"],
        <<Cls("A", "", <<Fun("m", <<>>, <<PrintS("A")>>)>>),
          Cls("B", "A", <<Fun("m", <<>>, <<SuperM, PrintS("B")>>)>>),
          Expression(CallOf(Get(CallOf(V("B"), <<>>), T("m")), <<>>))>>)

\* class A { init(n) { this.n = n; } } class B < A { m() {} } class C < B {}
\* class D < A { init() { this.d = "own"; } }
\* print D().d; var c = C(<nargs times 7>); print c.n;
InheritedInitSrc(nargs) ==
    Source([f |-> "inherited", nargs |-> nargs],
        <<Cls("A", "", <<Fun("init", <<"n">>,
                             <<Expression(Set(This(T("this")), T("n"), V("n")))>>)>>),
          Cls("B", "A", <<Fun("m", <<>>, <<>>)>>),
          Cls("C", "B", <<>>),
          Cls("D", "A", <<Fun("init", <<>>,
                              <<Expression(Set(This(T("this")), T("d"), S("own")))>>)>>),
          PrintStmt(Get(CallOf(V("D"), <<>>), T("d"))),
          VarS("c", CallOf(V("C"), [i \in 1..nargs |-> N(7)])),
          PrintStmt(Get(V("c"), T("n")))>>)

\* The operands of a logical operator
LogicalValues == {"nil", "false", "true", "zero", "empty", "one"}
LogicalValue(v) ==
    CASE v = "nil" -> Nil
      [] v = "false" -> Bool(FALSE)
      [] v = "true" -> Bool(TRUE)
      [] v = "zero" -> Num(0)
      [] v = "empty" -> Str("")
      [] v = "one" -> Num(1)

\* fun l() { print "l"; return <a>; } fun r() { print "r"; return <b>; }
\* print l() <oper> r();
LogicalSrc(oper, a, b) ==
    Source([f |-> "logical", oper |-> oper, a |-> a, b |-> b],
        <<Fun("l", <<>>, <<PrintS("l"), Ret(Literal(LogicalValue(a)))>>),
          Fun("r", <<>>, <<PrintS("r"), Ret(Literal(LogicalValue(b)))>>),
          PrintStmt(Logical(CallOf(V("l"), <<>>), T(oper), CallOf(V("r"), <<>>)))>>)

\* The operands of == and !=; K is a class, o and p are instances of it
EqualValues == {"nil", "false", "true", "zero", "one", "string", "digit", "clock",
                "class", "instance", "other"}
EqualValue(v) ==
    CASE v = "nil" -> Literal(Nil)
      [] v = "false" -> Literal(Bool(FALSE))
      [] v = "true" -> Literal(Bool(TRUE))
      [] v = "zero" -> N(0)
      [] v = "one" -> N(1)
      [] v = "string" -> S("s")
      [] v = "digit" -> S("1")
      [] v = "clock" -> V("clock")
      [] v = "class" -> V("K")
      [] v = "instance" -> V("o")
      [] v = "other" -> V("p")

\* class K {} var o = K(); var p = K();
\* print <x> == <y>; print <x> != <y>; print <y> == <x>; print <y> != <x>;
EqualSrc(x, y) ==
    Source([f |-> "equal", x |-> x, y |-> y],
        <<Cls("K", "", <<>>),
          VarS("o", CallOf(V("K"), <<>>)),
          VarS("p", CallOf(V("K"), <<>>)),
          PrintStmt(Bin(EqualValue(x), "==", EqualValue(y))),
          PrintStmt(Bin(EqualValue(x), "!=", EqualValue(y))),
          PrintStmt(Bin(EqualValue(y), "==", EqualValue(x))),
          PrintStmt(Bin(EqualValue(y), "!=", EqualValue(x)))>>)

\* class K { m() { return this; } } var o = K(); var p = K();
\* var mo = o.m; var mp = p.m; print mo() == o; print mp() == p;
\* print mo() == mp(); print mo() == o;
BindSrc ==
    Source([f |-> "bind"],
        <<Cls("K", "", <<Fun("m", <<>>, <<Ret(This(T("this")))>>)>>),
          VarS("o", CallOf(V("K"), <<>>)),
          VarS("p", CallOf(V("K"), <<>>)),
          VarS("mo", Get(V("o"), T("m"))),
          VarS("mp", Get(V("p"), T("m"))),
          PrintStmt(Bin(CallOf(V("mo"), <<>>), "==", V("o"))),
          PrintStmt(Bin(CallOf(V("mp"), <<>>), "==", V("p"))),
          PrintStmt(Bin(CallOf(V("mo"), <<>>), "==", CallOf(V("mp"), <<>>))),
          PrintStmt(Bin(CallOf(V("mo"), <<>>), "==", V("o")))>>)

\* What stands for the superclass of a class
SuperclassValues == {"nil", "string", "number", "clock", "instance", "class"}
SuperclassValue(v) ==
    CASE v = "nil" -> Literal(Nil)
      [] v = "string" -> S("A")
      [] v = "number" -> N(1)
      [] v = "clock" -> V("clock")
      [] v = "instance" -> CallOf(V("A"), <<>>)
      [] v = "class" -> V("A")

\* class A { m() { return "A"; } } var x = <v>;
\* { var y = 1; class B < x { m() { return super.m(); } n() {} } print B().m(); }
\* print "after";
SuperclassSrc(v) ==
    Source([f |-> "superclass", v |-> v],
        <<Cls("A", "", <<Fun("m", <<>>, <<Ret(S("A"))>>)>>),
          VarS("x", SuperclassValue(v)),
          Block(<<VarS("y", N(1)),
                  Cls("B", "x",
                      <<Fun("m", <<>>,
                            <<Ret(CallOf(Super(T("super"), T("m")), <<>>))>>),
                        Fun("n", <<>>, <<>>)>>),
                  PrintStmt(CallOf(Get(CallOf(V("B"), <<>>), T("m")), <<>>))>>),
          PrintS("after")>>)

\* A runtime error under a block, a function call, a block, a method call
\* and a block, after a field write and an assignment:
\*   var a = "initial";
\*   class K { m() { this.f = "written"; { a = "assigned"; <error> print "dead"; } } }
\*   var o = K();
\*   fun f() { { var d = "local"; o.m(); } print "dead"; }
\*   { f(); print "dead"; }
\*   print "after";
DeepErrors == {"superclass", "undefined", "negate", "call"}
DeepError(kind) ==
    CASE kind = "superclass" -> Cls("B", "a", <<>>)                   \* class B < a {}
      [] kind = "undefined" -> PrintV("undefined")                    \* print undefined;
      [] kind = "negate" -> PrintStmt(Unary(T("-"), V("a")))          \* print -a;
      [] kind = "call" -> Expression(CallOf(V("a"), <<>>))            \* a();
DeepErrorSrc(kind) ==
    Source([f |-> "deeperror", kind |-> kind],
        <<VarS("a", S("initial")),
          Cls("K", "",
              <<Fun("m", <<>>,
                    <<Expression(Set(This(T("this")), T("f"), S("written"))),
                      Block(<<Expression(Assign(T("a"), S("assigned"))),
                              DeepError(kind),
                              PrintS("dead")>>)>>)>>),
          VarS("o", CallOf(V("K"), <<>>)),
          Fun("f", <<>>,
              <<Block(<<VarS("d", S("local")),
                        Expression(CallOf(Get(V("o"), T("m")), <<>>))>>),
                PrintS("dead")>>),
          Block(<<Expression(CallOf(V("f"), <<>>)), PrintS("dead")>>),
          PrintS("after")>>)

\* The callee of a call that must fail, and the number of arguments given
Callees == {"nil", "string", "number", "bool", "instance", "fn", "class", "init",
            "clock", "method"}
CalleeExpr(c) ==
    CASE c = "nil" -> Literal(Nil)
      [] c = "string" -> S("s")
      [] c = "number" -> N(1)
      [] c = "bool" -> Literal(Bool(TRUE))
      [] c = "instance" -> V("o")
      [] c = "fn" -> V("f")
      [] c = "class" -> V("K")
      [] c = "init" -> V("I")
      [] c = "clock" -> V("clock")
      [] c = "method" -> Get(V("o"), T("m"))

\* fun f(a) { print "ran"; } fun g() { print "arg"; return 1; }
\* class K { m(a) { print "ran"; } } class I { init(a) { print "ran"; } }
\* var o = K(); <callee>(<nargs times g()>); print "after";
CallSrc(c, nargs) ==
    Source([f |-> "call", callee |-> c, nargs |-> nargs],
        <<Fun("f", <<"a">>, <<PrintS("ran")>>),
          Fun("g", <<>>, <<PrintS("arg"), Ret(N(1))>>),
          Cls("K", "", <<Fun("m", <<"a">>, <<PrintS("ran")>>)>>),
          Cls("I", "", <<Fun("init", <<"a">>, <<PrintS("ran")>>)>>),
          VarS("o", CallOf(V("K"), <<>>)),
          Expression(CallOf(CalleeExpr(c),
                            [i \in 1..nargs |-> CallOf(V("g"), <<>>)])),
          PrintS("after")>>)

\* Calls of functions with two parameters:
\*   function   fun f(a, b) { print a; print b; } f(1, "s");
\*   method     class K { m(a, b) { print a; print b; } } K().m(1, "s");
\*   init       class K { init(a, b) { print a; print b; } } K(1, "s");
\*   local      { var c = 2; fun f(a, b) { print a; print b; print c; } f(c, 1); }
\*   recursive  fun f(a, b) { if (a) f(false, a); print b; } f(true, 1);
\*   same       fun f(a, b) { print a; print b; } f(1, 1);
\*   duplicate  fun f(a, a) { print a; } f(1, 2);
ParamsKinds == {"function", "method", "init", "local", "recursive", "same", "duplicate"}
ParamsSrc(kind) ==
    LET body == <<PrintV("a"), PrintV("b")>>
    IN  Source([f |-> "params", kind |-> kind],
            CASE kind = "function" ->
                    <<Fun("f", <<"a", "b">>, body),
                      Expression(CallOf(V("f"), <<N(1), S("s")>>))>>
              [] kind = "method" ->
                    <<Cls("K", "", <<Fun("m", <<"a", "b">>, body)>>),
                      Expression(CallOf(Get(CallOf(V("K"), <<>>), T("m")),
                                        <<N(1), S("s")>>))>>
              [] kind = "init" ->
                    <<Cls("K", "", <<Fun("init", <<"a", "b">>, body)>>),
                      Expression(CallOf(V("K"), <<N(1), S("s")>>))>>
              [] kind = "local" ->
                    <<Block(<<VarS("c", N(2)),
                              Fun("f", <<"a", "b">>, body \o <<PrintV("c")>>),
                              Expression(CallOf(V("f"), <<V("c"), N(1)>>))>>)>>
              [] kind = "recursive" ->
                    <<Fun("f", <<"a", "b">>,
                          <<If(V("a"),
                               Expression(CallOf(V("f"),
                                                 <<Literal(Bool(FALSE)), V("a")>>)),
                               NoNode),
                            PrintV("b")>>),
                      Expression(CallOf(V("f"), <<Literal(Bool(TRUE)), N(1)>>))>>
              [] kind = "same" ->
                    <<Fun("f", <<"a", "b">>, body),
                      Expression(CallOf(V("f"), <<N(1), N(1)>>))>>
              [] kind = "duplicate" ->
                    <<Fun("f", <<"a", "a">>, <<PrintV("a")>>),
                      Expression(CallOf(V("f"), <<N(1), N(2)>>))>>)

\* var a = "one"; fun get() { print a; } fun set(v) { a = v; }
\* get(); <a = "two"; or set("two");> get(); get(); print a;
\* at the top level, in a block or in the body of a function that is called
ClosureScopes == {"global", "block", "function"}
ClosureWriters == {"declarer", "closure"}
ClosureSrc(scope, writer) ==
    LET body ==
            <<VarS("a", S("one")),
              Fun("get", <<>>, <<PrintV("a")>>),
              Fun("set", <<"v">>, <<Expression(Assign(T("a"), V("v")))>>),
              Expression(CallOf(V("get"), <<>>)),
              IF writer = "declarer" THEN Expression(Assign(T("a"), S("two")))
              ELSE Expression(CallOf(V("set"), <<S("two")>>)),
              Expression(CallOf(V("get"), <<>>)),
              Expression(CallOf(V("get"), <<>>)),
              PrintV("a")>>
    IN  Source([f |-> "closure", scope |-> scope, writer |-> writer],
            CASE scope = "global" -> body
              [] scope = "block" -> <<Block(body)>>
              [] scope = "function" ->
                    <<Fun("mk", <<>>, body), Expression(CallOf(V("mk"), <<>>))>>)

\* Sources with static errors.  A source the scanner or the parser reports
\* an error for still has the statements the parser recovered.
BadSyntaxSrc(scan_errors, parse_errors) ==
    [Source([f |-> "syntax", scan |-> scan_errors, parse |-> parse_errors],
            <<PrintS("ran")>>)
     EXCEPT !.scan_errors = scan_errors, !.parse_errors = parse_errors]

StaticKinds == {"toplevel_return", "own_initializer", "init_value", "this", "two"}
StaticSrc(kind) ==
    Source([f |-> "static", kind |-> kind],
        <<PrintS("ran")>> \o
        CASE kind = "toplevel_return" -> <<Ret(NoNode)>>              \* return;
          [] kind = "own_initializer" ->                              \* { var a = a; }
                <<Block(<<VarS("a", V("a"))>>)>>
          [] kind = "init_value" ->      \* class Foo { init() { return "x"; } }
                <<Cls("Foo", "", <<Fun("init", <<>>, <<Ret(S("x"))>>)>>)>>
          [] kind = "this" -> <<PrintStmt(This(T("this")))>>          \* print this;
          [] kind = "two" ->                           \* { var a; var a; } return 1;
                <<Block(<<VarS("a", NoNode), VarS("a", NoNode)>>), Ret(N(1))>>)

\* Sources whose run ends in a LoxRunTimeError after a first side effect
RuntimeKinds == {"operands", "undefined", "assign_undefined", "negate", "in_call",
                 "superclass", "defs"}
RuntimeSrc(kind) ==
    Source([f |-> "runtime", kind |-> kind],
        <<VarS("x", NoNode), PrintS("before")>> \o
        (CASE kind = "operands" ->                                    \* x = x + 1;
                <<Expression(Assign(T("x"), Bin(V("x"), "+", N(1))))>>
           [] kind = "undefined" -> <<PrintV("undefined")>>           \* print undefined;
           [] kind = "assign_undefined" ->                            \* undefined = 1;
                <<Expression(Assign(T("undefined"), N(1)))>>
           [] kind = "negate" -> <<PrintStmt(Unary(T("-"), S("s")))>> \* print -"s";
           [] kind = "in_call" ->               \* fun f() { { print y; } } { f(); }
                <<Fun("f", <<>>, <<Block(<<PrintV("y")>>)>>),
                  Block(<<Expression(CallOf(V("f"), <<>>))>>)>>
           [] kind = "superclass" ->                                  \* class B < x {}
                <<Cls("B", "x", <<>>)>>
           [] kind = "defs" ->
                \* var a = "kept"; fun g() { return "g"; } class A {} print undefined;
                <<VarS("a", S("kept")), Fun("g", <<>>, <<Ret(S("g"))>>),
                  Cls("A", "", <<>>), PrintV("undefined")>>)
        \o <<PrintS("after")>>)

\* Sources that do well: the scenarios of the documentation and REPL lines
\* that use what earlier lines defined
OkKinds == {"sum", "bare_return", "print_a", "set_a", "call_g", "def_a", "clock",
            "print_A"}
OkSrc(kind) ==
    Source([f |-> "ok", kind |-> kind],
        CASE kind = "sum" -> <<PrintStmt(Bin(N(1), "+", N(2)))>>      \* print 1 + 2;
          [] kind = "bare_return" ->                   \* fun f() { return; } print f();
                <<Fun("f", <<>>, <<Ret(NoNode)>>), PrintStmt(CallOf(V("f"), <<>>))>>
          [] kind = "print_a" -> <<PrintV("a")>>                      \* print a;
          [] kind = "set_a" ->                                        \* a = "again";
                <<Expression(Assign(T("a"), S("again")))>>
          [] kind = "call_g" -> <<PrintStmt(CallOf(V("g"), <<>>))>>   \* print g();
          [] kind = "def_a" -> <<VarS("a", S("defined"))>>            \* var a = "defined";
          [] kind = "print_A" -> <<PrintV("A")>>                      \* print A;
          [] kind = "clock" ->                         \* print clock() <= clock();
                <<PrintStmt(Bin(CallOf(V("clock"), <<>>), "<=",
                                CallOf(V("clock"), <<>>)))>>)

\* Sources with an assignment whose value holds a call
\*   "global":  fun f() { print "ran"; return 1; } var a; a = f(); print a;
\*   "local":   fun f() { print "ran"; return 1; } { var a; a = f(); print a; }
AssignCallSrc(kind) ==
    Source([f |-> "assigncall", kind |-> kind],
        <<Fun("f", <<>>, <<PrintS("ran"), Ret(N(1))>>)>> \o
        (LET body == <<VarS("a", NoNode),
                       Expression(Assign(T("a"), CallOf(V("f"), <<>>))),
                       PrintV("a")>>
         IN IF kind = "global" THEN body ELSE <<Block(body)>>))

\* { var a = "x"; { fun f() { { print a; a = "y"; } } f(); print a; } }
DeepSrc ==
    Source([f |-> "deep"],
        <<Block(<<VarS("a", S("x")),
                  Block(<<Fun("f", <<>>,
                              <<Block(<<PrintV("a"),
                                        Expression(Assign(T("a"), S("y")))>>)>>),
                          Expression(CallOf(V("f"), <<>>)),
                          PrintV("a")>>)>>)>>)

\* var i = 0; while (true) i = i + 1;     (never ends)
LoopSrc ==
    Source([f |-> "loop"],
        <<VarS("i", N(0)),
          While(Literal(Bool(TRUE)),
                Expression(Assign(T("i"), Bin(V("i"), "+", N(1)))))>>)

\* Where a `return` stands.  X is absent when bare, "x" otherwise.
\*   "top"            return X;
\*   "block"          { if (true) return X; }
\*   "function"       fun f() { while (false) { return X; } }
\*   "after_function" fun f() { return 1; } return X;
\*   "method"         class A { m() { return X; } }
\*   "init"           class A { init() { return X; } }
\*   "init_block"     class A { init() { { return X; } } }
\*   "in_init"        class A { init() { fun g() { return X; } } }
\*   "after_in_init"  class A { init() { fun g() { return 1; } return X; } }
\*   "after_method"   class A { m() { return 1; } init() { return X; } n() { return X; } }
\*   "class_in_fun"   fun f() { class A { init() { return X; } } return X; }
\*   "after_class"    class A { init() { return; } } return X;
\*   "fun_init"       fun init() { return X; }
ReturnPlaces ==
    {"top", "block", "function", "after_function", "method", "init", "init_block",
     "in_init", "after_in_init", "after_method", "class_in_fun", "after_class",
     "fun_init"}

StaticReturnSrc(place, bare) ==
    LET X == IF bare THEN NoNode ELSE S("x")
    IN Source([f |-> "staticreturn", place |-> place, bare |-> bare],
        CASE place = "top" -> <<Ret(X)>>
          [] place = "block" -> <<Block(<<If(Literal(Bool(TRUE)), Ret(X), NoNode)>>)>>
          [] place = "function" ->
                <<Fun("f", <<>>, <<While(Literal(Bool(FALSE)), Block(<<Ret(X)>>))>>)>>
          [] place = "after_function" -> <<Fun("f", <<>>, <<Ret(N(1))>>), Ret(X)>>
          [] place = "method" -> <<Cls("A", "", <<Fun("m", <<>>, <<Ret(X)>>)>>)>>
          [] place = "init" -> <<Cls("A", "", <<Fun("init", <<>>, <<Ret(X)>>)>>)>>
          [] place = "init_block" ->
                <<Cls("A", "", <<Fun("init", <<>>, <<Block(<<Ret(X)>>)>>)>>)>>
          [] place = "in_init" ->
                <<Cls("A", "", <<Fun("init", <<>>,
                                     <<Fun("g", <<>>, <<Ret(X)>>)>>)>>)>>
          [] place = "after_in_init" ->
                <<Cls("A", "", <<Fun("init", <<>>,
                                     <<Fun("g", <<>>, <<Ret(N(1))>>), Ret(X)>>)>>)>>
          [] place = "after_method" ->
                <<Cls("A", "", <<Fun("m", <<>>, <<Ret(N(1))>>),
                                 Fun("init", <<>>, <<Ret(X)>>),
                                 Fun("n", <<>>, <<Ret(X)>>)>>)>>
          [] place = "class_in_fun" ->
                <<Fun("f", <<>>,
                      <<Cls("A", "", <<Fun("init", <<>>, <<Ret(X)>>)>>), Ret(X)>>)>>
          [] place = "after_class" ->
                <<Cls("A", "", <<Fun("init", <<>>, <<Ret(NoNode)>>)>>), Ret(X)>>
          [] place = "fun_init" -> <<Fun("init", <<>>, <<Ret(X)>>)>>)

\* Where a `this` or a `super` stands.  W is `print this;` or `super.m;`,
\* and every source starts with class Z {}.
\*   "top"             W
\*   "function"        fun f() { W }
\*   "after_class"     class A { m() {} } W
\*   "after_sub"       class B < Z { m() {} } W
\*   "method"          class A { m() { W } }
\*   "closure"         class A { m() { fun g() { { W } } } }
\*   "sub"             class B < Z { m() { W } }
\*   "sub_closure"     class B < Z { m() { fun g() { W } } }
\*   "plain_in_sub"    class B < Z { m() { class C { n() { W } } } }
\*   "after_in_sub"    class B < Z { m() { class C { n() {} } W } }
\*   "sub_in_plain"    class A { m() { class C < Z { n() { W } } } }
\*   "after_in_plain"  class A { m() { class C < Z { n() {} } W } }
\*   "next_method"     class A { m() { class C < Z { n() {} } } k() { W } }
\*   "both"            class B < Z { m() { class C { n() { W } } W } }
\*   "fun_in_class"    fun f() { class A { m() { W } } W }
ClassPlaces ==
    {"top", "function", "after_class", "after_sub", "method", "closure", "sub",
     "sub_closure", "plain_in_sub", "after_in_sub", "sub_in_plain", "after_in_plain",
     "next_method", "both", "fun_in_class"}

ClassUseSrc(place, word) ==
    LET W == IF word = "this" THEN PrintStmt(This(T("this")))
             ELSE Expression(Super(T("super"), T("m")))
        M(name, body) == Fun(name, <<>>, body)
    IN Source([f |-> "classuse", place |-> place, word |-> word],
        <<Cls("Z", "", <<>>)>> \o
        CASE place = "top" -> <<W>>
          [] place = "function" -> <<M("f", <<W>>)>>
          [] place = "after_class" -> <<Cls("A", "", <<M("m", <<>>)>>), W>>
          [] place = "after_sub" -> <<Cls("B", "Z", <<M("m", <<>>)>>), W>>
          [] place = "method" -> <<Cls("A", "", <<M("m", <<W>>)>>)>>
          [] place = "closure" ->
                <<Cls("A", "", <<M("m", <<M("g", <<Block(<<W>>)>>)>>)>>)>>
          [] place = "sub" -> <<Cls("B", "Z", <<M("m", <<W>>)>>)>>
          [] place = "sub_closure" -> <<Cls("B", "Z", <<M("m", <<M("g", <<W>>)>>)>>)>>
          [] place = "plain_in_sub" ->
                <<Cls("B", "Z", <<M("m", <<Cls("C", "", <<M("n", <<W>>)>>)>>)>>)>>
          [] place = "after_in_sub" ->
                <<Cls("B", "Z", <<M("m", <<Cls("C", "", <<M("n", <<>>)>>), W>>)>>)>>
          [] place = "sub_in_plain" ->
                <<Cls("A", "", <<M("m", <<Cls("C", "Z", <<M("n", <<W>>)>>)>>)>>)>>
          [] place = "after_in_plain" ->
                <<Cls("A", "", <<M("m", <<Cls("C", "Z", <<M("n", <<>>)>>), W>>)>>)>>
          [] place = "next_method" ->
                <<Cls("A", "", <<M("m", <<Cls("C", "Z", <<M("n", <<>>)>>)>>),
                                 M("k", <<W>>)>>)>>
          [] place = "both" ->
                <<Cls("B", "Z", <<M("m", <<Cls("C", "", <<M("n", <<W>>)>>), W>>)>>)>>
          [] place = "fun_in_class" ->
                <<M("f", <<Cls("A", "", <<M("m", <<W>>)>>), W>>)>>)

Sources ==
    {ShadowSrc(late) : late \in BOOLEAN}
    \cup {ShadowLocalSrc(late) : late \in BOOLEAN}
    \cup {ShadowAssignSrc, CounterSrc, InitArgSrc, SuperScenarioSrc}
    \cup {ForSrc(n) : n \in {0, 2}}
    \cup {ReturnSrc(kind, bare) : kind \in ReturnKinds, bare \in BOOLEAN}
    \cup {ReturnInnerSrc(kind) : kind \in {"plain", "deep"}}
    \cup {InitSrc(ret) : ret \in BOOLEAN}
    \cup {FieldSrc(name, v) : name \in {"f", "m", "j"}, v \in FieldValues}
    \cup {MethodSrc(name) : name \in {"m", "j", "f"}}
    \cup {SuperSrc(kind, cls) : kind \in SuperKinds, cls \in {"B", "C"}}
    \cup {CallSrc(c, nargs) : c \in Callees, nargs \in {0, 2}}
    \cup {BadSyntaxSrc(1, 0), BadSyntaxSrc(0, 1), BadSyntaxSrc(1, 1)}
    \cup {StaticSrc(kind) : kind \in StaticKinds}
    \cup {RuntimeSrc(kind) : kind \in RuntimeKinds}
    \cup {OkSrc(kind) : kind \in OkKinds}
    \cup {AssignCallSrc(kind) : kind \in {"global", "local"}}
    \cup {LoopSrc, DeepSrc, BindSrc}
    \cup {SuperclassSrc(v) : v \in SuperclassValues}
    \cup {DeepErrorSrc(kind) : kind \in DeepErrors}
    \cup {StaticReturnSrc(place, bare) : place \in ReturnPlaces, bare \in BOOLEAN}
    \cup {ClassUseSrc(place, word) : place \in ClassPlaces, word \in {"this", "super"}}
    \cup {ParamsSrc(kind) : kind \in ParamsKinds}
    \cup {ClosureSrc(scope, writer) : scope \in ClosureScopes, writer \in ClosureWriters}
    \cup {InheritedInitSrc(nargs) : nargs \in 0..2}
    \cup {EqualSrc(x, y) : x \in EqualValues,
                           y \in {"nil", "false", "true", "zero", "one", "instance"}}
    \cup {LogicalSrc(oper, a, b) : oper \in {"or", "and"}, a \in LogicalValues,
                                   b \in {"nil", "false", "one"}}

\* The lines typed at the prompt after the first one
Lines ==
    {OkSrc(kind) : kind \in {"print_a", "set_a", "call_g", "def_a", "print_A"}}
    \cup {ForSrc(2), ShadowLocalSrc(TRUE), StaticSrc("toplevel_return"),
          RuntimeSrc("undefined")}

----------------------------------------------------------------------------
(* The program: Lox (loxygen.py) running a file or the REPL.               *)
(*                                                                         *)
(* pc is the place of the Lox object in main/run_file/run_prompt/run:      *)
(*   "prompt"    run_file before its run, or run_prompt at input()         *)
(*   "parsed"    run() has scanned and parsed the source                   *)
(*   "resolved"  run() has run the resolver                                *)
(*   "running"   interpret() is at statement run.i of the source           *)
(*   "returned"  run() has returned `status`                               *)
(*   "exited"    the process has ended with exit code `exit`               *)

NoRun == [src |-> Source([f |-> "none"], <<>>), stmts |-> <<>>, i |-> 0,
          errors |-> <<>>]

NoHist == [stages |-> {}, log |-> <<>>, supers |-> <<>>, created |-> FALSE,
           maxd |-> -1, err |-> NoNode, steps |-> 0, before |-> NoNode,
           binds |-> <<>>, decls |-> <<>>]

\* The interpreter state made of the variables, for one statement
State ==
    [envs |-> envs, fns |-> fns, classes |-> classes, insts |-> insts, env |-> env,
     locals |-> locals, out |-> out, sig |-> "ok", val |-> Nil, args |-> <<>>,
     err |-> NoNode, steps |-> 0, log |-> hist.log, supers |-> hist.supers,
     created |-> hist.created, maxd |-> hist.maxd, time |-> 0,
     binds |-> hist.binds, decls |-> hist.decls]

\* Interpreter(): globals holds clock, env is globals, locals is empty
Init ==
    /\ envs = <<[values |-> ("clock" :> ClockVal), enclosing |-> 0]>>
    /\ fns = <<>>
    /\ classes = <<>>
    /\ insts = <<>>
    /\ env = GLOBALS
    /\ locals = [x \in {} |-> 0]
    /\ out = <<>>
    /\ status = "none"
    /\ pc = "prompt"
    /\ mode \in {"file", "prompt"}
    /\ exit = -1
    /\ nruns = 0
    /\ run = NoRun
    /\ hist = NoHist
    /\ occ = {}
    /\ op = NoNode
    /\ resolver = NoNode
    /\ parser = NoNode

\* Lox.run, lines 47-50: scan and parse the source
Scan(src) ==
    /\ pc = "prompt"
    /\ nruns < MaxRuns
    /\ mode = "file" => nruns = 0
    /\ nruns > 0 => src \in Lines
    /\ nruns' = nruns + 1
    /\ run' = [src |-> src, stmts |-> Parse(src.stmts, nruns + 1), i |-> 1,
               errors |-> <<>>]
    /\ pc' = "parsed"
    /\ out' = <<>>
    /\ status' = "none"
    /\ hist' = [NoHist EXCEPT !.stages = {"scanner", "parser"}]
    /\ resolver' = NoNode
    /\ UNCHANGED <<envs, fns, classes, insts, env, locals, mode, exit, occ, op, parser>>

\* Lox.run, lines 52-54: the scanner's or the parser's errors end the run
StaticError ==
    /\ pc = "parsed"
    /\ run.src.scan_errors + run.src.parse_errors > 0
    /\ status' = "STATIC_ERROR"
    /\ pc' = "returned"
    /\ UNCHANGED <<envs, fns, classes, insts, env, locals, out, mode, exit, nruns,
                   run, hist, occ, op, resolver, parser>>

\* Lox.run, lines 56-57: Resolver(self.interpreter).resolve(*stmts)
Resolve ==
    /\ pc = "parsed"
    /\ run.src.scan_errors + run.src.parse_errors = 0
    /\ \E rs \in {Resolver_resolve(run.stmts, 1, Resolver(locals, occ))} :
          /\ locals' = rs.locals
          /\ occ' = rs.occ
          /\ run' = [run EXCEPT !.errors = rs.errors]
          /\ hist' = [hist EXCEPT !.stages = @ \cup {"resolver"},
                                  !.err = IF rs.exc = "none" THEN NoNode
                                          ELSE [exception |-> rs.exc]]
          /\ resolver' = [k |-> "Resolver", scopes |-> rs.scopes,
                          current_function |-> rs.current_function,
                          current_class |-> rs.current_class,
                          errors |-> rs.errors, exc |-> rs.exc]
          /\ IF rs.exc = "none"
             THEN pc' = "resolved" /\ exit' = exit
             ELSE pc' = "exited" /\ exit' = 1
    /\ UNCHANGED <<envs, fns, classes, insts, env, out, status, mode, nruns, op,
                   parser>>

\* Lox.run, lines 59-60: the resolver's errors end the run
ResolverError_ ==
    /\ pc = "resolved"
    /\ run.errors # <<>>
    /\ status' = "STATIC_ERROR"
    /\ pc' = "returned"
    /\ UNCHANGED <<envs, fns, classes, insts, env, locals, out, mode, exit, nruns,
                   run, hist, occ, op, resolver, parser>>

\* A run() that goes on to interpret() whatever the resolver recorded
CanInterpretAnyway == pc \in {"resolved", "running"}

\* Lox.run, lines 59-62: interpret() is reached when the resolver recorded
\* no error
CanInterpret ==
    \/ pc = "resolved" /\ run.errors = <<>>
    \/ pc = "running"

\* Lox.run, line 63, and Interpreter.interpret: one statement of the loop.
\* Only LoxRunTimeError is caught: any other exception, a Return that no
\* call caught included, ends the process with a traceback (exit code 1).
Execute ==
    /\ CanInterpret
    /\ run.i <= Len(run.stmts)
    /\ \E s \in {execute(run.stmts[run.i], State)} :
          /\ envs' = s.envs
          /\ fns' = s.fns
          /\ classes' = s.classes
          /\ insts' = s.insts
          /\ env' = s.env
          /\ locals' = s.locals
          /\ out' = s.out
          /\ hist' = [hist EXCEPT !.stages = @ \cup {"interpreter"},
                                  !.log = s.log, !.supers = s.supers,
                                  !.binds = s.binds, !.decls = s.decls,
                                  !.created = s.created, !.maxd = s.maxd,
                                  !.err = IF s.sig = "return"
                                          THEN [exception |-> "Return"]
                                          ELSE s.err,
                                  !.steps = s.steps]
          /\ run' = [run EXCEPT !.i = IF s.sig = "ok" THEN @ + 1 ELSE @]
          /\ CASE s.sig = "ok" -> pc' = "running" /\ UNCHANGED <<status, exit>>
               [] s.sig = "error" ->
                    pc' = "returned" /\ status' = "RUNTIME_ERROR" /\ exit' = exit
               [] s.sig \in {"crash", "return"} ->
                    pc' = "exited" /\ exit' = 1 /\ status' = status
               [] OTHER -> pc' = "cut" /\ UNCHANGED <<status, exit>>
    /\ UNCHANGED <<mode, nruns, occ, op, resolver, parser>>

\* Lox.run, line 68: interpret() returned
Finish ==
    /\ CanInterpret
    /\ run.i > Len(run.stmts)
    /\ status' = "OK"
    /\ pc' = "returned"
    /\ hist' = [hist EXCEPT !.stages = @ \cup {"interpreter"}]
    /\ UNCHANGED <<envs, fns, classes, insts, env, locals, out, mode, exit, nruns,
                   run, occ, op, resolver, parser>>

\* contract.LoxStatus: the value of a status
LoxStatus(name) ==
    CASE name = "OK" -> 0
      [] name = "STATIC_ERROR" -> 65
      [] name = "RUNTIME_ERROR" -> 70

\* run_file after run(): sys.exit(status.value) unless OK
RunFileReturn ==
    /\ pc = "returned"
    /\ mode = "file"
    /\ pc' = "exited"
    /\ exit' = LoxStatus(status)
    /\ UNCHANGED <<envs, fns, classes, insts, env, locals, out, status, mode, nruns,
                   run, hist, occ, op, resolver, parser>>

\* run_prompt that leaves the loop when run() returned an error status
RunPromptReturn_stops_on_error ==
    /\ pc = "returned"
    /\ mode = "prompt"
    /\ IF status = "OK" THEN pc' = "prompt" /\ exit' = exit
       ELSE pc' = "exited" /\ exit' = LoxStatus(status)
    /\ UNCHANGED <<envs, fns, classes, insts, env, locals, out, status, mode,
                   nruns, run, hist, occ, op, resolver, parser>>

\* run_prompt after run(): the next input()
RunPromptReturn ==
    /\ pc = "returned"
    /\ mode = "prompt"
    /\ pc' = "prompt"
    /\ UNCHANGED <<envs, fns, classes, insts, env, locals, out, status, mode, exit,
                   nruns, run, hist, occ, op, resolver, parser>>

\* run_prompt: input() returned the empty line
EmptyLine ==
    /\ pc = "prompt"
    /\ mode = "prompt"
    /\ pc' = "exited"
    /\ exit' = 0
    /\ UNCHANGED <<envs, fns, classes, insts, env, locals, out, status, mode, nruns,
                   run, hist, occ, op, resolver, parser>>

\* run_prompt: input() met the end of the input and raised EOFError, which
\* nothing catches: the process ends with a traceback (exit code 1)
EndOfFile ==
    /\ pc = "prompt"
    /\ mode = "prompt"
    /\ pc' = "exited"
    /\ exit' = 1
    /\ UNCHANGED <<envs, fns, classes, insts, env, locals, out, status, mode, nruns,
                   run, hist, occ, op, resolver, parser>>

Next ==
    \/ \E src \in Sources : Scan(src)
    \/ StaticError
    \/ Resolve
    \/ ResolverError_
    \/ Execute
    \/ Finish
    \/ RunFileReturn
    \/ RunPromptReturn
    \/ EmptyLine
    \/ EndOfFile

Spec == Init /\ [][Next]_vars

----------------------------------------------------------------------------
(* Environment on its own: the operations of environment.py applied in any *)
(* order to a heap of at most MaxEnvs environments.  `op` is the last      *)
(* operation with its outcome; the variables of Lox stay as constructed.   *)

EnvNames == {"x", "y"}
Defined == Num(1)
Assigned == Num(2)

InitEnv ==
    /\ envs = <<[values |-> NoValues, enclosing |-> 0]>>
    /\ op = [kind |-> "init"]
    /\ fns = <<>>
    /\ classes = <<>>
    /\ insts = <<>>
    /\ env = GLOBALS
    /\ locals = [x \in {} |-> 0]
    /\ out = <<>>
    /\ status = "none"
    /\ pc = "prompt"
    /\ mode = "file"
    /\ exit = -1
    /\ nruns = 0
    /\ run = NoRun
    /\ hist = NoHist
    /\ occ = {}
    /\ resolver = NoNode
    /\ parser = NoNode

LoxUnchanged ==
    UNCHANGED <<fns, classes, insts, env, locals, out, status, pc, mode, exit,
                nruns, run, hist, occ, resolver, parser>>

\* Environment(enclosing)
EnvNew(enclosing) ==
    /\ Len(envs) < MaxEnvs
    /\ envs' = Environment(envs, enclosing)
    /\ op' = [kind |-> "new"]
    /\ LoxUnchanged

\* e.define(name, Defined)
EnvDefine(e, name) ==
    /\ envs' = define(envs, e, name, Defined)
    /\ op' = [kind |-> "define"]
    /\ LoxUnchanged

\* e.assign(name, Assigned): returns, or raises LoxRunTimeError `err`
EnvAssign(e, name) ==
    LET r == assign(envs, e, T(name), Assigned)
    IN /\ envs' = r.es
       /\ op' = [kind |-> "assign", e |-> e, name |-> name, err |-> r.err]
       /\ LoxUnchanged

NextEnv ==
    \/ \E e \in DOMAIN envs : EnvNew(e)
    \/ \E e \in DOMAIN envs, name \in EnvNames : EnvDefine(e, name)
    \/ \E e \in DOMAIN envs, name \in EnvNames : EnvAssign(e, name)

SpecEnv == InitEnv /\ [][NextEnv]_vars

----------------------------------------------------------------------------
(* Resolver on its own: the steps the visit_* methods make on the scope    *)
(* stack, in any order a tree allows.  op is the last step; op.pending is  *)
(* the name of the `var` statement the resolver is in the middle of (after *)
(* its declare, before its define), "" when it is in none: an initializer  *)
(* is an expression, so no scope begins or ends and nothing is declared    *)
(* while a name is pending.                                                *)

ResolverNames == {"a", "b"}

\* The resolver state of the operators, made of the variables
ResolverState ==
    [scopes |-> resolver.scopes, current_function |-> resolver.current_function,
     current_class |-> resolver.current_class, errors |-> resolver.errors,
     exc |-> resolver.exc, locals |-> locals, occ |-> {}]

InitResolver ==
    /\ resolver = [k |-> "Resolver", scopes |-> <<>>, current_function |-> "NONE",
                   current_class |-> "NONE", errors |-> <<>>, exc |-> "none"]
    /\ op = [kind |-> "init", name |-> "", pending |-> ""]
    /\ envs = <<[values |-> ("clock" :> ClockVal), enclosing |-> 0]>>
    /\ fns = <<>>
    /\ classes = <<>>
    /\ insts = <<>>
    /\ env = GLOBALS
    /\ locals = [x \in {} |-> 0]
    /\ out = <<>>
    /\ status = "none"
    /\ pc = "parsed"
    /\ mode = "file"
    /\ exit = -1
    /\ nruns = 1
    /\ run = NoRun
    /\ hist = NoHist
    /\ occ = {}
    /\ parser = NoNode

\* What a step of the resolver leaves alone
ResolverStep(kind, name, pending, rs) ==
    /\ Len(rs.errors) <= MaxErrors
    /\ resolver' = [resolver EXCEPT !.scopes = rs.scopes, !.errors = rs.errors]
    /\ locals' = rs.locals
    /\ op' = [kind |-> kind, name |-> name, pending |-> pending]
    /\ UNCHANGED <<envs, fns, classes, insts, env, out, status, pc, mode, exit, nruns,
                   run, hist, occ, parser>>

\* scope(), entering: a block, a function or a class body begins
BeginScope ==
    /\ op.pending = ""
    /\ Len(resolver.scopes) < MaxScopes
    /\ ResolverStep("begin", "", "", PushScope(ResolverState))

\* scope(), leaving
EndScope ==
    /\ op.pending = ""
    /\ resolver.scopes # <<>>
    /\ ResolverStep("end", "", "", PopScope(ResolverState))

\* visit_var_stmt, line 160: declare(stmt.name)
VarDeclare(name) ==
    /\ op.pending = ""
    /\ ResolverStep("declare", name, name, Resolver_declare(T(name), ResolverState))

\* visit_var_stmt, line 163: define(stmt.name)
VarDefine ==
    /\ op.pending # ""
    /\ ResolverStep("define", op.pending, "",
                    Resolver_define(T(op.pending), ResolverState))

\* visit_function_stmt, visit_class_stmt and resolve_function for a
\* parameter: declare(name) then define(name)
DeclareDefine(name) ==
    /\ op.pending = ""
    /\ ResolverStep("declare_define", name, "",
                    Resolver_define(T(name), Resolver_declare(T(name), ResolverState)))

\* visit_variable_expr for a Variable of the statement or initializer
\* being resolved
VisitVariable(name) ==
    ResolverStep("variable", name, op.pending,
                 Resolver_visit_variable_expr(V(name), ResolverState))

NextResolver ==
    \/ BeginScope
    \/ EndScope
    \/ \E name \in ResolverNames : VarDeclare(name)
    \/ VarDefine
    \/ \E name \in ResolverNames : DeclareDefine(name)
    \/ \E name \in ResolverNames : VisitVariable(name)

SpecResolver == InitResolver /\ [][NextResolver]_vars

----------------------------------------------------------------------------
(* Parser on its own: Parser(tokens).parse() on the token lists of small   *)
(* sources, one turn of parse()'s loop at a time.  `parser` holds the      *)
(* parser state p and `statements`, the list parse() is building.          *)

MaxTokens == 4      \* tokens of a source made of any words

\* Every source of up to MaxTokens of these words
Words == {"var", "print", "a", "1", "=", ";", "{", "}"}

RECURSIVE WordLists(_)
WordLists(n) ==
    IF n = 0 THEN {<<>>}
    ELSE LET shorter == WordLists(n - 1)
         IN  shorter \cup {Append(l, w) : l \in {s \in shorter : Len(s) = n - 1}, w \in Words}

\* Sources with an error before each kind of synchronization point, at the
\* top level and inside blocks, functions, classes and control statements
RecoverySources ==
    {<<"a", "b", ";", "print", "1", ";">>,
     <<"(", ";", "class", "A", "{", "}">>,
     <<"var", ";", "fun", "f", "(", ")", "{", "}">>,
     <<"print", ";", "for", "(", ";", ";", ")", "a", ";">>,
     <<"1", "+", ";", "if", "(", "a", ")", "b", ";">>,
     <<"a", "=", ";", "while", "(", "a", ")", "b", ";">>,
     <<"a", ".", ";", "return", ";">>,
     <<"a", "(", "1", "var", "b", ";">>,
     <<"{", "var", ";", "print", "1", ";", "}", "print", "2", ";">>,
     <<"{", "{", "=", "}", "}">>,
     <<"{", "a", "b", "}", "print", "1", ";">>,
     <<"fun", "f", "(", ")", "{", "a", "b", ";", "a", ";", "}">>,
     <<"fun", "(", ")", "{", "}", "print", "1", ";">>,
     <<"fun", "f", "(", "1", ")", "{", "}", "var", "a", ";">>,
     <<"class", "A", "{", "m", "(", ")", "{", ")", ";", "var", "a", ";", "}", "}">>,
     <<"class", "A", "{", "m", "(", ")", "{", "=", "}", "n", "(", ")", "{", "}", "}">>,
     <<"class", "A", "<", "{", "}", "print", "1", ";">>,
     <<"class", "A", "{", "var", "a", ";", "}">>,
     <<"if", "(", "a", ")", "{", "=", ";", "}", "print", "1", ";">>,
     <<"if", "(", "a", ")", "=", ";", "print", "1", ";">>,
     <<"if", "(", "a", ")", "b", ";", "else", ";", "a", ";">>,
     <<"while", "(", ")", "a", ";", "b", ";">>,
     <<"for", "(", "var", ";", ";", ")", "a", ";">>,
     <<"for", "(", ";", "a", ")", "b", ";", "c", ";">>,
     <<"return", "1", "print", "2", ";">>,
     <<"print", "super", ";", "a", ";">>,
     <<"print", "super", ".", ";", "a", ";">>,
     <<"a", ".", "1", ";", "a", ";">>,
     <<"print", "(", "a", ";", "a", ";">>,
     <<"a", "(", "b", ",", ")", ";", "a", ";">>,
     <<"var", "a", "=", "1", "print", "a", ";">>,
     <<"a", ";", "=", "b">>,
     <<";">>}

\* Assignments `left = right` in five places of a statement
LeftSides ==
    {<<"a">>, <<"a", ".", "b">>, <<"a", ".", "b", ".", "c">>, <<"a", "(", ")", ".", "b">>,
     <<"this", ".", "b">>, <<"(", "a", ".", "b", ")">>, <<"1">>, <<"'s'">>,
     <<"(", "a", ")">>, <<"a", "(", ")">>, <<"a", "+", "b">>, <<"-", "a">>, <<"!", "a">>,
     <<"this">>, <<"nil">>, <<"true">>, <<"super", ".", "m">>, <<"a", "==", "b">>,
     <<"a", "or", "b">>}

RightSides ==
    {<<"1">>, <<"b">>, <<"b", "=", "2">>, <<"2", "=", "3">>, <<"b", ".", "c", "=", "1">>,
     <<"b", "+", "1">>, <<>>, <<")">>}

Places == {"expression", "print", "var", "argument", "block"}

AssignText(left, right, place) ==
    LET text == left \o <<"=">> \o right
    IN  CASE place = "expression" -> text \o <<";">>
          [] place = "print" -> <<"print">> \o text \o <<";">>
          [] place = "var" -> <<"var", "x", "=">> \o text \o <<";">>
          [] place = "argument" -> <<"f", "(">> \o text \o <<")", ";">>
          [] place = "block" -> <<"{">> \o text \o <<";", "}">>

\* Lists of n parameters or arguments
ListKinds == {"call", "function", "method"}

ListLengths == (MAXIMUM_ARGS_NUMBER - 1)..(MAXIMUM_ARGS_NUMBER + 2)

ListText(kind, n) ==
    LET list == [i \in 1..(2 * n - 1) |-> IF i % 2 = 1 THEN "a" ELSE ","]
    IN  CASE kind = "call" -> <<"f", "(">> \o list \o <<")", ";", "print", "1", ";">>
          [] kind = "function" ->
                <<"fun", "f", "(">> \o list \o <<")", "{", "}", "print", "1", ";">>
          [] kind = "method" ->
                <<"class", "C", "{", "m", "(">> \o list
                    \o <<")", "{", "}", "}", "print", "1", ";">>

\* Chains of operands and operators: x1 o1 x2 o2 ... xn ;
LadderOperators == {"=", "or", "and", "==", "!=", "<", "<=", ">", ">=", "+", "-",
                    "*", "/"}
LevelOperators == {"=", "or", "and", "==", "<", "+", "*"}
LadderOperands ==
    {<<<<"a">>, <<"b">>, <<"1">>>>,
     <<<<"-", "a">>, <<"!", "b">>, <<"!", "-", "c">>>>,
     <<<<"a", ".", "f">>, <<"b", "(", ")">>, <<"-", "c", ".", "g", "(", ")">>>>}
LadderChains ==
    {[operands |-> xs, operators |-> <<o1, o2>>] :
        xs \in LadderOperands, o1 \in LadderOperators, o2 \in LadderOperators}
    \cup {[operands |-> <<<<"a">>, <<"b">>, <<"c">>, <<"d">>>>,
           operators |-> <<o1, o2, o3>>] :
            o1 \in LevelOperators, o2 \in LevelOperators, o3 \in LevelOperators}

RECURSIVE LadderText(_, _)
LadderText(chain, i) ==
    IF i = Len(chain.operands) THEN chain.operands[i] \o <<";">>
    ELSE chain.operands[i] \o <<chain.operators[i]>> \o LadderText(chain, i + 1)

\* var i = 's' ; for ( <initializer> <condition> ; <increment> ) <body> print i ;
ForInitializers == {"none", "var", "expression"}
ForBodies == {"print", "block"}
ForPiece(part, kind) ==
    CASE part = "initializer" ->
            (CASE kind = "none" -> <<";">>
               [] kind = "var" -> <<"var", "i", "=", "0", ";">>
               [] kind = "expression" -> <<"i", "=", "0", ";">>)
      [] part = "condition" -> IF kind THEN <<"i", "<", "2">> ELSE <<>>
      [] part = "increment" -> IF kind THEN <<"i", "=", "i", "+", "1">> ELSE <<>>
      [] part = "body" ->
            (CASE kind = "print" -> <<"print", "i", ";">>
               [] kind = "block" -> <<"{", "print", "i", ";", "}">>)
ForHead == <<"var", "i", "=", "'s'", ";", "for", "(">>
ForText(initializer, condition, increment, body) ==
    ForHead \o ForPiece("initializer", initializer)
        \o ForPiece("condition", condition) \o <<";">>
        \o ForPiece("increment", increment) \o <<")">>
        \o ForPiece("body", body) \o <<"print", "i", ";">>

ParserSource(fam, text) == [fam |-> fam, text |-> text]

ParserSources ==
    {ParserSource([f |-> "words"], text) : text \in WordLists(MaxTokens)}
    \cup {ParserSource([f |-> "recovery"], text) : text \in RecoverySources}
    \cup {ParserSource([f |-> "assign", left |-> left, right |-> right, place |-> place],
                       AssignText(left, right, place)) :
            left \in LeftSides, right \in RightSides, place \in Places}
    \cup {ParserSource([f |-> "list", kind |-> kind, n |-> n], ListText(kind, n)) :
            kind \in ListKinds, n \in ListLengths}
    \cup {ParserSource([f |-> "ladder", chain |-> chain], LadderText(chain, 1)) :
            chain \in LadderChains}
    \cup {ParserSource([f |-> "for", initializer |-> i, condition |-> c,
                         increment |-> n, body |-> b], ForText(i, c, n, b)) :
            i \in ForInitializers, c \in BOOLEAN, n \in BOOLEAN, b \in ForBodies}

InitParser ==
    /\ \E src \in ParserSources :
        /\ run = [src |-> src, stmts |-> <<>>, i |-> 0, errors |-> <<>>]
        /\ parser = [p |-> Parser(scan_tokens(src.text, 1)), statements |-> <<>>]
    /\ op = [kind |-> "Parser", start |-> 0]
    /\ envs = <<[values |-> ("clock" :> ClockVal), enclosing |-> 0]>>
    /\ fns = <<>>
    /\ classes = <<>>
    /\ insts = <<>>
    /\ env = GLOBALS
    /\ locals = [x \in {} |-> 0]
    /\ out = <<>>
    /\ status = "none"
    /\ pc = "parse"
    /\ mode = "file"
    /\ exit = -1
    /\ nruns = 1
    /\ hist = NoHist
    /\ occ = {}
    /\ resolver = NoNode

ParserUnchanged ==
    UNCHANGED <<envs, fns, classes, insts, env, locals, out, status, mode, exit, nruns,
                run, hist, occ, resolver>>

\* One turn of `while not self.is_at_end()` in parse()
ParseDeclaration ==
    /\ pc = "parse"
    /\ ~is_at_end(parser.p)
    /\ \E p1 \in {declaration(parser.p)} :
        parser' = [p |-> p1,
                   statements |-> IF p1.val # NoNode THEN Append(parser.statements, p1.val)
                                  ELSE parser.statements]
    /\ op' = [kind |-> "declaration", start |-> parser.p.current]
    /\ pc' = pc
    /\ ParserUnchanged

\* `return statements` in parse()
ParseReturn ==
    /\ pc = "parse"
    /\ is_at_end(parser.p)
    /\ pc' = "parsed"
    /\ op' = [kind |-> "return", start |-> parser.p.current]
    /\ parser' = parser
    /\ ParserUnchanged

NextParser ==
    \/ ParseDeclaration
    \/ ParseReturn

SpecParser == InitParser /\ [][NextParser]_vars

----------------------------------------------------------------------------
(* Properties.                                                             *)

Fam == run.src.fam
Printed(texts) == [i \in DOMAIN texts |-> Line(texts[i])]
IsPrefix(a, b) == Len(a) <= Len(b) /\ a = SubSeq(b, 1, Len(a))
Ended == pc \in {"returned", "exited"}

\* The run prints `lines`, in this order and nothing else, and returns OK
Expect(lines) ==
    /\ IsPrefix(out, lines)
    /\ pc # "cut"
    /\ Ended => status = "OK" /\ out = lines

C2_StaticScoping ==
    /\ \A late \in BOOLEAN :
          Fam = [f |-> "shadow", late |-> late] =>
             Expect(Printed(<<"global", "global",
                              IF late THEN "local" ELSE "global">>))
    /\ \A late \in BOOLEAN :
          Fam = [f |-> "shadowlocal", late |-> late] => Expect(Printed(<<"outer">>))
    /\ Fam = [f |-> "shadowassign"] => Expect(Printed(<<"local", "set">>))

\* The function was called after `var a = "local";` and printed global
C2_Witness ==
    /\ Fam = [f |-> "shadow", late |-> TRUE]
    /\ pc = "returned" /\ status = "OK"
    /\ out = Printed(<<"global", "global", "local">>)

\* C3: resolver depths match the runtime environment chain.  In a run whose
\* source passed the resolver, no lookup at a resolved depth fails the
\* assertion of `ancestor` or misses the name in get_at, and no assign_at
\* makes a new binding.
C3_DepthsMatchChain ==
    run.errors = <<>> =>
        /\ hist.err \notin {[exception |-> "AssertionError"],
                             [exception |-> "KeyError"]}
        /\ ~hist.created

\* A run that read and assigned a variable three environments up
C3_Witness ==
    /\ Fam = [f |-> "deep"]
    /\ pc = "returned" /\ status = "OK"
    /\ hist.maxd >= 3
    /\ out = Printed(<<"x", "y">>)

\* C4: a Return signal unwinds exactly to the innermost LoxFunction.call.
\* Wherever the `return` is nested in blocks, `if` and `while` of the body,
\* the call gives the payload (nil when bare), no statement after the
\* `return` runs, the caller goes on after the call, in its own
\* environment, and no Return leaves interpret().
C4_ReturnUnwinds ==
    /\ \A i \in DOMAIN out : out[i] # Line("dead")
    /\ hist.err # [exception |-> "Return"]
    /\ \A i \in DOMAIN hist.log : hist.log[i].body = "return" => hist.log[i].sig = "ok"
    /\ \A kind \in ReturnKinds, bare \in BOOLEAN :
          Fam = [f |-> "return", kind |-> kind, bare |-> bare] =>
             /\ Expect(Printed(<<IF bare THEN "nil" ELSE "r", "caller">>))
             /\ env = GLOBALS
    /\ \A kind \in ReturnKinds :
          Fam = [f |-> "returninner", kind |-> kind] =>
             /\ Expect(Printed(<<"r", "mid", "g">>))
             /\ env = GLOBALS

\* A return inside while, if and two blocks ended its call, and the caller
\* printed its own local variable afterwards
C4_Witness ==
    /\ Fam = [f |-> "return", kind |-> "deep", bare |-> FALSE]
    /\ pc = "returned" /\ status = "OK"
    /\ out = Printed(<<"r", "caller">>)
    /\ \E i \in DOMAIN hist.log :
          hist.log[i].body = "return" /\ hist.log[i].val = Str("r")

\* C5: a call of an initializer returns the instance its closure binds as
\* `this`, when the body ended normally and when it ended by a Return.
C5_InitializerReturnsThis ==
    /\ \A i \in DOMAIN hist.log :
          LET c == hist.log[i] IN
          (c.callee.t = "fn" /\ c.body \in {"ok", "return"}
              /\ fns[c.callee.id].is_initializer)
             => /\ c.sig = "ok"
                /\ c.val.t = "inst"
                /\ "this" \in DOMAIN envs[fns[c.callee.id].closure].values
                /\ c.val = envs[fns[c.callee.id].closure].values["this"]
    /\ \A ret \in BOOLEAN :
          Fam = [f |-> "init", ret |-> ret] => Expect(Printed(<<"true", "set">>))
    /\ Fam = [f |-> "initarg"] =>
          Expect(<<Line("falsy"), Line("true"), [number |-> 1]>>)

\* An initializer called on an instance with an argument ended by `return;`
\* and gave the instance
C5_Witness ==
    /\ Fam = [f |-> "initarg"]
    /\ pc = "returned" /\ status = "OK"
    /\ \E i \in DOMAIN hist.log :
          LET c == hist.log[i] IN
          /\ c.callee.t = "fn" /\ fns[c.callee.id].is_initializer
          /\ c.body = "return" /\ c.arguments = <<Num(1)>>
          /\ c.val = InstVal(1)

\* The run ended with the LoxRunTimeError `message`
RuntimeError(message) ==
    /\ status = "RUNTIME_ERROR"
    /\ "message" \in DOMAIN hist.err
    /\ hist.err.message = message

UndefinedProperty(text, name) == [msg |-> text, name |-> name]

\* C6: LoxInstance.get looks up fields first.  After `o.name = v`, for v nil,
\* false, a number, a string, a class or an instance, `o.name` is v, also
\* when the class of o or its superclass has a method `name`; without a
\* field, `o.name` is the method of the class chain, and with neither field
\* nor method it is the error "Undefined property 'name'.".
C6_FieldsFirst ==
    /\ \A name \in {"f", "m", "j"}, v \in FieldValues :
          Fam = [f |-> "field", name |-> name, v |-> v] => Expect(Printed(<<"true">>))
    /\ Fam = [f |-> "method", name |-> "m"] => Expect(Printed(<<"K.m">>))
    /\ Fam = [f |-> "method", name |-> "j"] => Expect(Printed(<<"J.j">>))
    /\ Fam = [f |-> "method", name |-> "f"] =>
          /\ out = <<>>
          /\ Ended => RuntimeError(UndefinedProperty(
                          "Undefined property '{name.lexeme}'.", "f"))

\* `o.f = nil; print o.f == nil;` on an instance whose class chain has no
\* method f ended with "Undefined property 'f'."
C6_Witness ==
    /\ Fam = [f |-> "field", name |-> "f", v |-> "nil"]
    /\ pc = "returned"
    /\ out = <<>>
    /\ insts[1].fields = ("f" :> Nil)
    /\ RuntimeError(UndefinedProperty("Undefined property '{name.lexeme}'.", "f"))

\* C7: `super.method` dispatch.  Every Super expression evaluated finds a
\* class as `super` at its depth and an instance as `this` one environment
\* nearer; the method is looked up from the superclass of the class that
\* declares the enclosing method, whatever the class of the instance, and
\* is called with that instance as `this`; a method no class of that chain
\* has is the runtime error "Undefined property 'method'.".
C7_SuperDispatch ==
    /\ hist.err # [exception |-> "AssertionError"]
    /\ \A i \in DOMAIN hist.supers :
          LET e == hist.supers[i] IN
          /\ e.distance >= 1
          /\ e.superclass \in DOMAIN classes
          /\ e.object \in DOMAIN insts
          /\ classes[e.superclass].name = "A"
          /\ e.method # 0 =>
                \E j \in DOMAIN hist.log :
                   LET c == hist.log[j] IN
                   /\ c.callee.t = "fn"
                   /\ fns[c.callee.id].declaration = fns[e.method].declaration
                   /\ fns[c.callee.id].closure # fns[e.method].closure
                   /\ envs[fns[c.callee.id].closure].values = ("this" :> InstVal(e.object))
    /\ \A cls \in {"B", "C"} :
          /\ \A kind \in {"direct", "block", "closure"} :
                Fam = [f |-> "super", kind |-> kind, cls |-> cls] =>
                   Expect(Printed(<<"A">>))
          /\ Fam = [f |-> "super", kind |-> "twice", cls |-> cls] =>
                Expect(Printed(<<"A", "A">>))
          /\ Fam = [f |-> "super", kind |-> "missing", cls |-> cls] =>
                /\ out = <<>>
                /\ Ended => RuntimeError(UndefinedProperty(
                                "Undefined property '{expr.method.lexeme}'.", "nope"))
    /\ Fam = [f |-> "superscenario"] => Expect(Printed(<<"A", "B">>))

\* `super.m()` in a function nested in method t of B, called on an instance
\* of C, a subclass of B: the method of A ran
C7_Witness ==
    /\ Fam = [f |-> "super", kind |-> "closure", cls |-> "C"]
    /\ pc = "returned" /\ status = "OK"
    /\ out = Printed(<<"A">>)
    /\ \E i \in DOMAIN hist.supers :
          /\ hist.supers[i].distance = 3
          /\ classes[insts[hist.supers[i].object].cls].name = "C"
          /\ classes[hist.supers[i].superclass].name = "A"

AllStages == {"scanner", "parser", "resolver", "interpreter"}

\* C8: the first failing stage halts the pipeline of Lox.run.  With an error
\* of the scanner or the parser neither resolver nor interpreter runs and
\* the status is STATIC_ERROR (exit code 65); with an error of the resolver
\* the interpreter does not run and the status is STATIC_ERROR; a
\* LoxRunTimeError gives RUNTIME_ERROR (70); the status is OK (0) only when
\* all four stages ran and none reported an error.
C8_PipelineHalts ==
    /\ run.src.scan_errors + run.src.parse_errors > 0 =>
          /\ hist.stages \subseteq {"scanner", "parser"}
          /\ out = <<>>
          /\ Ended => status = "STATIC_ERROR"
    /\ run.errors # <<>> =>
          /\ hist.stages = {"scanner", "parser", "resolver"}
          /\ out = <<>>
          /\ Ended => status = "STATIC_ERROR"
    /\ (Ended /\ "token" \in DOMAIN hist.err) => status = "RUNTIME_ERROR"
    /\ status = "RUNTIME_ERROR" => "token" \in DOMAIN hist.err /\ hist.stages = AllStages
    /\ status = "OK" =>
          /\ run.src.scan_errors + run.src.parse_errors = 0
          /\ run.errors = <<>>
          /\ hist.err = NoNode
          /\ hist.stages = AllStages
    /\ (pc = "exited" /\ mode = "file") =>
          /\ status = "STATIC_ERROR" => exit = 65
          /\ status = "RUNTIME_ERROR" => exit = 70
          /\ status = "OK" => exit = 0

\* A file with two errors of the resolver ended with exit code 65 and
\* printed nothing
C8_Witness ==
    /\ Fam = [f |-> "static", kind |-> "two"]
    /\ mode = "file" /\ pc = "exited" /\ exit = 65
    /\ Len(run.errors) = 2
    /\ out = <<>>

NonCallable == {"nil", "string", "number", "bool", "instance"}
CalleeArity(c) == IF c \in {"fn", "init", "method"} THEN 1 ELSE 0

\* C9: the call protocol.  A call of a value that is no LoxCallable is the
\* runtime error "Can only call functions and classes.", and a call with M
\* arguments of a callable of arity N # M is "Expected N arguments but got
\* M."; the arguments were evaluated, and the callee's `call` did not run:
\* no call is logged for it, no environment and no instance is made, no
\* statement of its body runs.
C9_CallProtocol ==
    \A c \in Callees, n \in {0, 2} :
       Fam = [f |-> "call", callee |-> c, nargs |-> n] =>
          IF c \notin NonCallable /\ CalleeArity(c) = n
          THEN Expect(Printed(<<"after">>))
          ELSE /\ IsPrefix(out, Printed([i \in 1..n |-> "arg"]))
               /\ pc # "cut"
               /\ Len(insts) <= 1
               /\ Len(hist.log) <= 1 + n
               /\ \A i \in DOMAIN hist.log :
                     LET l == hist.log[i] IN
                     /\ l.arguments = <<>>
                     /\ l.callee.t \in {"fn", "class"}
                     /\ l.callee.t = "class" => classes[l.callee.id].name = "K"
                     /\ l.callee.t = "fn" =>
                           fns[l.callee.id].declaration.name.lexeme = "g"
               /\ Ended =>
                     /\ out = Printed([i \in 1..n |-> "arg"])
                     /\ Len(envs) = 1 + n + (IF c = "method" THEN 1 ELSE 0)
                     /\ RuntimeError(
                           IF c \in NonCallable
                           THEN Msg("Can only call functions and classes.")
                           ELSE [msg |-> "Expected {arity} arguments but got {nb_args}.",
                                 arity |-> CalleeArity(c), nb_args |-> n])

\* A class whose init takes one parameter was called with two arguments:
\* both were evaluated, then the error, with no instance made
C9_Witness ==
    /\ Fam = [f |-> "call", callee |-> "init", nargs |-> 2]
    /\ pc = "returned" /\ status = "RUNTIME_ERROR"
    /\ out = Printed(<<"arg", "arg">>)
    /\ Len(hist.log) = 3 /\ Len(insts) = 1

\* The environments from e to the root
RECURSIVE Chain(_, _)
Chain(es, e) == IF e = 0 THEN {} ELSE {e} \cup Chain(es, es[e].enclosing)

\* The innermost environment of the chain of e that has the name
RECURSIVE Innermost(_, _, _)
Innermost(es, e, name) ==
    IF name \in DOMAIN es[e].values THEN e ELSE Innermost(es, es[e].enclosing, name)

\* C10: Environment.assign never creates a binding.  When no environment of
\* the chain has the name it raises "Undefined variable 'x'." and leaves
\* every environment as it was; otherwise it sets the value in the
\* innermost environment of the chain that has the name and changes
\* nothing else, the names of every environment included.
C10_AssignNeverCreates ==
    [][op'.kind = "assign" =>
          LET e == op'.e
              name == op'.name
          IN IF \A d \in Chain(envs, e) : name \notin DOMAIN envs[d].values
             THEN /\ op'.err = UndefinedVariable(T(name))
                  /\ envs' = envs
             ELSE LET d == Innermost(envs, e, name) IN
                  /\ op'.err = NoNode
                  /\ envs'[d].values[name] = Assigned
                  /\ \A k \in DOMAIN envs :
                        /\ DOMAIN envs'[k].values = DOMAIN envs[k].values
                        /\ envs'[k].enclosing = envs[k].enclosing
                        /\ \A x \in DOMAIN envs[k].values :
                              (k # d \/ x # name) =>
                                 envs'[k].values[x] = envs[k].values[x]
                  /\ Len(envs') = Len(envs)]_vars

\* An assign through an environment without the name set it in the nearer of
\* two enclosing environments that have it, and not in the farther one
C10_Witness ==
    /\ op.kind = "assign" /\ op.err = NoNode
    /\ Len(envs) = 3
    /\ envs[3].enclosing = 2 /\ envs[2].enclosing = 1
    /\ op.e = 3
    /\ op.name \notin DOMAIN envs[3].values
    /\ op.name \in DOMAIN envs[2].values /\ envs[2].values[op.name] = Assigned
    /\ op.name \in DOMAIN envs[1].values /\ envs[1].values[op.name] = Defined

----------------------------------------------------------------------------
\* C11: the resolver never throws: whenever Resolver.resolve has run on the
\* statements of a source, it has run to completion (no Python exception
\* ended it), the scope stack is empty and current_function and
\* current_class are NONE.  The code does not have this property: a local
\* assignment whose value holds a call ends the pass with TypeError.
C11_ResolverNeverThrows ==
    "resolver" \in hist.stages =>
        /\ resolver.exc = "none"
        /\ resolver.scopes = <<>>
        /\ resolver.current_function = "NONE"
        /\ resolver.current_class = "NONE"

\* { var a; a = f(); print a; } ends the process in Interpreter.resolve
C11_Witness ==
    /\ Fam = [f |-> "assigncall", kind |-> "local"]
    /\ pc = "exited"
    /\ exit = 1
    /\ hist.stages = {"scanner", "parser", "resolver"}
    /\ resolver.exc = "TypeError"
    /\ out = <<>>

----------------------------------------------------------------------------
\* The nodes held by the fields of a node
ChildNodes(n) ==
    UNION {IF IsListField(n, f) THEN {n[f][i] : i \in DOMAIN n[f]}
           ELSE IF n[f] = NoNode THEN {}
           ELSE {n[f]} :
           f \in {g \in DOMAIN n : /\ g \notin TokenFields \cup {"k", "params"}
                                   /\ ~(g = "value" /\ n.k = "Literal")}}

\* The `return` statements in the text of n, each with the kind of the
\* innermost function declaration around it (fn around n itself): a method
\* named init is INITIALIZER, another method METHOD, a `fun` FUNCTION
RECURSIVE ReturnsIn(_, _)
ReturnsIn(n, fn) ==
    CASE n.k = "Class" ->
            UNION {ReturnsIn(Block(m.body),
                             IF m.name.lexeme = "init" THEN "INITIALIZER"
                             ELSE "METHOD") :
                   m \in {n.methods[i] : i \in DOMAIN n.methods}}
      [] n.k = "Function" -> ReturnsIn(Block(n.body), "FUNCTION")
      [] OTHER ->
            (IF n.k = "Return"
             THEN {[keyword |-> n.keyword, fn |-> fn, bare |-> n.value = NoNode]}
             ELSE {})
            \cup UNION {ReturnsIn(c, fn) : c \in ChildNodes(n)}

\* The tokens the resolver recorded the message for, and how many times
ErrorTokens(errors, message) ==
    {errors[i].token : i \in {j \in DOMAIN errors : errors[j].message = Msg(message)}}
ErrorCount(errors, message) ==
    Cardinality({j \in DOMAIN errors : errors[j].message = Msg(message)})

\* The resolver has gone through the statements of the run
Resolved == "resolver" \in hist.stages /\ resolver.exc = "none"

\* C12: when the resolver has gone through a source, "Can't return from
\* top-level code." is recorded once for each `return` that is in no function
\* or method body and for no other, and "Can't return a value from an
\* initializer." once for each `return` with a value whose innermost function
\* is a method named init and for no other: a bare `return` in an
\* initializer and a `return` in a function nested in one record nothing.
C12_StaticReturn ==
    Resolved =>
        LET returns == ReturnsIn(Block(run.stmts), "NONE")
            top == {r.keyword : r \in {q \in returns : q.fn = "NONE"}}
            init == {r.keyword : r \in {q \in returns : q.fn = "INITIALIZER"
                                                          /\ ~q.bare}}
        IN /\ ErrorTokens(run.errors, "Can't return from top-level code.") = top
           /\ ErrorCount(run.errors, "Can't return from top-level code.")
                 = Cardinality(top)
           /\ ErrorTokens(run.errors, "Can't return a value from an initializer.")
                 = init
           /\ ErrorCount(run.errors, "Can't return a value from an initializer.")
                 = Cardinality(init)

\* class A { init() { fun g() { return 1; } return "x"; } }: one error, for
\* the second `return`
C12_Witness ==
    /\ Fam = [f |-> "staticreturn", place |-> "after_in_init", bare |-> FALSE]
    /\ pc = "resolved"
    /\ Len(run.errors) = 1
    /\ run.errors[1].message = Msg("Can't return a value from an initializer.")
    /\ run.errors[1].token = run.stmts[1].methods[1].body[2].keyword

----------------------------------------------------------------------------
\* The `this` and `super` expressions in the text of n, each with the kind
\* of the innermost class declaration around it (cls around n itself):
\* SUBCLASS when that declaration has a superclass clause, CLASS when not
RECURSIVE ClassUsesIn(_, _)
ClassUsesIn(n, cls) ==
    CASE n.k = "Class" ->
            UNION {ClassUsesIn(m, IF n.superclass = NoNode THEN "CLASS"
                                  ELSE "SUBCLASS") :
                   m \in {n.methods[i] : i \in DOMAIN n.methods}}
      [] n.k \in {"This", "Super"} -> {[k |-> n.k, keyword |-> n.keyword, cls |-> cls]}
      [] OTHER -> UNION {ClassUsesIn(c, cls) : c \in ChildNodes(n)}

\* C13: when the resolver has gone through a source, an error is recorded
\* for a `this` exactly when it is in no class declaration, and for a
\* `super` exactly when it is in no class declaration ("outside of a class")
\* or the innermost class declaration around it has no superclass clause
\* ("no superclass"), each once, whatever the nesting of the declarations.
C13_StaticThisSuper ==
    Resolved =>
        LET uses == ClassUsesIn(Block(run.stmts), "NONE")
            Keywords(k, kinds) ==
                {u.keyword : u \in {v \in uses : v.k = k /\ v.cls \in kinds}}
            Once(message, tokens) ==
                /\ ErrorTokens(run.errors, message) = tokens
                /\ ErrorCount(run.errors, message) = Cardinality(tokens)
        IN /\ Once("Can't use 'this' outside of a class.", Keywords("This", {"NONE"}))
           /\ Once("Can't use 'super' outside of a class.",
                   Keywords("Super", {"NONE"}))
           /\ Once("Can't use 'super' in a class with no superclass.",
                   Keywords("Super", {"CLASS"}))

\* class B < Z { m() { class C { n() { super.m; } } super.m; } }: one error,
\* for the `super` in C
C13_Witness ==
    /\ Fam = [f |-> "classuse", place |-> "both", word |-> "super"]
    /\ pc = "resolved"
    /\ Len(run.errors) = 1
    /\ run.errors[1].message = Msg("Can't use 'super' in a class with no superclass.")
    /\ run.errors[1].token
          = run.stmts[2].methods[1].body[1].methods[1].body[1].expr.keyword
    /\ Cardinality(ClassUsesIn(Block(run.stmts), "NONE")) = 2

----------------------------------------------------------------------------
\* The innermost scope of the resolver, empty when the stack is
CurrentScope ==
    IF resolver.scopes = <<>> THEN [x \in {} |-> TRUE]
    ELSE resolver.scopes[Len(resolver.scopes)]

Recorded(name, message) == [token |-> T(name), message |-> Msg(message)]

\* C14: every declare(name), of a variable, a function, a class or a
\* parameter, records "Already a variable with this name in this scope."
\* when the scope stack is not empty and its innermost scope holds the name,
\* and records nothing otherwise (empty stack, or name only in outer scopes).
C14_DuplicateDeclaration ==
    [][op'.kind \in {"declare", "declare_define"} =>
          resolver'.errors =
              IF resolver.scopes # <<>> /\ op'.name \in DOMAIN CurrentScope
              THEN Append(resolver.errors,
                          Recorded(op'.name,
                                   "Already a variable with this name in this scope."))
              ELSE resolver.errors]_vars

\* { var a; var a; { var a     at the declare of the third `var a`: one error,
\* for the second; the third shadows the name of the outer scope
C14_Witness ==
    /\ op.kind = "declare"
    /\ op.name = "a"
    /\ Len(resolver.scopes) = 2
    /\ "a" \in DOMAIN resolver.scopes[1]
    /\ resolver.scopes[2] = ("a" :> FALSE)
    /\ resolver.errors =
          <<Recorded("a", "Already a variable with this name in this scope.")>>

----------------------------------------------------------------------------
\* C15: a name's flag in a resolver scope is false exactly while the
\* resolver is between the declare and the define of that name's `var`
\* statement, in the innermost scope; and every Variable expression resolved
\* records "Can't read local variable in its own initializer." when the
\* innermost scope maps its name to false, and records nothing when the name
\* is absent from the innermost scope (or the stack is empty) or mapped to
\* true.
C15_ReadBeforeInit ==
    /\ [](\A i \in DOMAIN resolver.scopes :
            \A name \in DOMAIN resolver.scopes[i] :
               ~resolver.scopes[i][name]
                   <=> (i = Len(resolver.scopes) /\ op.pending = name))
    /\ [](op.pending # "" /\ resolver.scopes # <<>>
             => op.pending \in DOMAIN CurrentScope)
    /\ [][op'.kind = "variable" =>
             resolver'.errors =
                 IF /\ op'.name \in DOMAIN CurrentScope
                    /\ ~CurrentScope[op'.name]
                 THEN Append(resolver.errors,
                             Recorded(op'.name,
                                      "Can't read local variable in its own initializer."))
                 ELSE resolver.errors]_vars

\* { var a; { var a = a     the `a` of the initializer has just been resolved
C15_Witness ==
    /\ op = [kind |-> "variable", name |-> "a", pending |-> "a"]
    /\ resolver.scopes = <<("a" :> TRUE), ("a" :> FALSE)>>
    /\ resolver.errors =
          <<Recorded("a", "Can't read local variable in its own initializer.")>>

----------------------------------------------------------------------------
\* The tokens held by a node and the nodes below it
RECURSIVE TokensIn(_)
TokensIn(n) ==
    {n[f] : f \in DOMAIN n \cap TokenFields}
    \cup (IF "params" \in DOMAIN n THEN {n.params[i] : i \in DOMAIN n.params} ELSE {})
    \cup UNION {TokensIn(c) : c \in ChildNodes(n)}

\* The words a statement starts with
StatementStarts == {"class", "fun", "var", "for", "if", "while", "print", "return"}

\* The i-th LoxParseError of the parse was caught by the i-th declaration()
\* call to catch one: where synchronize() left the parser
AfterSynchronize(p, i) ==
    LET end == p.log[i].end
    IN  \/ p.tokens[end + 1].type = "EOF"
        \/ end > 0 /\ p.tokens[end].lexeme = ";"
        \/ p.tokens[end + 1].lexeme \in StatementStarts

\* C16: every LoxParseError raised is caught by the declaration() call in
\* progress nearest to where it was raised (no error is left propagating
\* when a turn of parse() ends); where synchronize() then leaves the parser,
\* it is at EOF, or the token before is `;`, or the current token starts a
\* statement; the error is in `errors`; no token the failed declaration
\* went over is part of a statement of the list, and a turn of parse() whose
\* declaration() failed adds nothing to the list.
C16_PanicModeRecovery ==
    /\ [](parser # NoNode =>
            /\ parser.p.sig = "ok" /\ parser.p.depth = 0
            /\ Len(parser.p.raised) = Len(parser.p.log)
            /\ \A i \in DOMAIN parser.p.log :
                /\ parser.p.raised[i].depth = parser.p.log[i].depth
                /\ AfterSynchronize(parser.p, i)
                /\ \E j \in DOMAIN parser.p.errors :
                        /\ parser.p.errors[j].token = parser.p.raised[i].token
                        /\ parser.p.errors[j].message = parser.p.raised[i].message
                /\ \A s \in DOMAIN parser.statements :
                        \A tok \in TokensIn(parser.statements[s]) :
                            ~(parser.p.log[i].start < tok.pos[1]
                                /\ tok.pos[1] <= parser.p.log[i].end))
    /\ [][(/\ parser # NoNode
           /\ op'.kind = "declaration"
           /\ Len(parser'.p.log) > Len(parser.p.log)
           /\ parser'.p.log[Len(parser'.p.log)].depth = 1)
              => parser'.statements = parser.statements]_vars

\* { var ; print 1 ; } print 2 ;  parsed: the error at `;` was caught by the
\* declaration() of the block's first statement, and both prints are kept
C16_Witness ==
    /\ parser # NoNode
    /\ pc = "parsed"
    /\ Len(parser.p.log) = 1
    /\ parser.p.log[1].depth = 2
    /\ parser.p.errors[1].message = Msg("Expect variable name.")
    /\ Len(parser.statements) = 2
    /\ parser.statements[1].k = "Block"
    /\ Len(parser.statements[1].statements) = 1

----------------------------------------------------------------------------
\* The tokens before `left = right` in a statement of AssignText
PlaceOffset(place) ==
    CASE place = "expression" -> 0 [] place = "print" -> 1 [] place = "var" -> 3
      [] place = "argument" -> 2 [] place = "block" -> 1

\* The statement AssignText makes around an expression
PlaceStatement(place, expr, tokens) ==
    CASE place = "expression" -> Expression(expr)
      [] place = "print" -> PrintStmt(expr)
      [] place = "var" -> Var(tokens[2], expr)
      [] place = "argument" ->
            Expression(Call(Variable(tokens[1]), tokens[Len(tokens) - 2], <<expr>>))
      [] place = "block" -> Block(<<Expression(expr)>>)

\* What parse() made of `left = right`: lhs is the parser after the
\* expression to the left of `=` (parsed on its own), rhs the parser after
\* the right-hand side (parsed on its own after the `=`)
AssignmentOutcome(place, lhs, rhs) ==
    LET equals == peek(lhs)
        target == lhs.val
        invalid == [token |-> equals, message |-> Msg("Invalid assignment target.")]
    IN  /\ equals.lexeme = "="
        /\ parser.p.raised = <<>> /\ parser.p.log = <<>>
        /\ is_at_end(parser.p)
        /\ IF target.k = "Variable" THEN
                /\ parser.statements =
                    <<PlaceStatement(place, Assign(target.name, rhs.val), parser.p.tokens)>>
                /\ parser.p.errors = rhs.errors
           ELSE IF target.k = "Get" THEN
                /\ parser.statements =
                    <<PlaceStatement(place, Set(target.object, target.name, rhs.val),
                                     parser.p.tokens)>>
                /\ parser.p.errors = rhs.errors
           ELSE /\ parser.statements = <<PlaceStatement(place, target, parser.p.tokens)>>
                /\ parser.p.errors = Append(rhs.errors, invalid)

AssignmentSides(place, lhs) ==
    LET Right(rhs) == rhs.sig = "ok" => AssignmentOutcome(place, lhs, rhs)
    IN  Right(assignment(advance(lhs)))

\* C17: in `left = right` where the right-hand side parses, when `left`
\* parsed to neither a Variable nor a Get, "Invalid assignment target." is
\* recorded at the `=` (after the errors of the right-hand side), no
\* LoxParseError is raised and synchronize() is not called, the right-hand
\* side has been consumed and the assignment gives the left expression, with
\* which the statement around it is completed and kept; when `left` is a
\* Variable the result is an Assign of its name, when it is a Get a Set of
\* its object and name, with no error for the `=`.
C17_InvalidAssignmentTarget ==
    (parser # NoNode /\ pc = "parsed" /\ run.src.fam.f = "assign") =>
        AssignmentSides(run.src.fam.place,
                        logical_or([Parser(parser.p.tokens) EXCEPT
                                        !.current = PlaceOffset(run.src.fam.place)]))

\* f ( a + b = 2 = 3 ) ;  parsed: two invalid targets, `2 =` then `a + b =`,
\* and the call statement is kept with a + b as its argument
C17_Witness ==
    /\ parser # NoNode
    /\ pc = "parsed"
    /\ run.src.fam = [f |-> "assign", left |-> <<"a", "+", "b">>,
                      right |-> <<"2", "=", "3">>, place |-> "argument"]
    /\ Len(parser.p.errors) = 2
    /\ parser.p.errors[2].token.pos = <<6>>
    /\ parser.p.errors[2].message = Msg("Invalid assignment target.")
    /\ parser.p.log = <<>>
    /\ Len(parser.statements) = 1
    /\ parser.statements[1].expr.arguments[1].k = "Binary"

----------------------------------------------------------------------------
\* The tokens before the list in a statement of ListText
ListOffset(kind) ==
    CASE kind = "call" -> 2 [] kind = "function" -> 3 [] kind = "method" -> 5

\* The arguments or parameters parse() made of the list
ListParsed(kind) ==
    CASE kind = "call" ->
            [i \in DOMAIN parser.statements[1].expr.arguments |->
                parser.statements[1].expr.arguments[i].name]
      [] kind = "function" -> parser.statements[1].params
      [] kind = "method" -> parser.statements[1].methods[1].params

\* C18: a call with n arguments, or a function or a method with n
\* parameters, followed by `print 1;`: when n is more than 255, one "Can't
\* have more than 255 arguments." (or "parameters.") is recorded for each
\* element past the 255th, at that element; when n is 255 or less, no error
\* is recorded; in both cases no LoxParseError is raised, synchronize() is
\* not called, the node has all n elements in order, and the print after it
\* is parsed.
C18_ArgumentLimit ==
    (parser # NoNode /\ pc = "parsed" /\ run.src.fam.f = "list") =>
        LET kind == run.src.fam.kind
            n == run.src.fam.n
            element == [i \in 1..n |-> parser.p.tokens[ListOffset(kind) + 2 * i - 1]]
            message == IF kind = "call" THEN Msg("Can't have more than 255 arguments.")
                       ELSE Msg("Can't have more than 255 parameters.")
        IN  /\ parser.p.errors =
                    [j \in 1..(IF n > 255 THEN n - 255 ELSE 0) |->
                        [token |-> element[255 + j], message |-> message]]
            /\ parser.p.raised = <<>> /\ parser.p.log = <<>>
            /\ Len(parser.statements) = 2
            /\ parser.statements[1].k =
                    (CASE kind = "call" -> "Expression" [] kind = "function" -> "Function"
                       [] kind = "method" -> "Class")
            /\ ListParsed(kind) = element
            /\ parser.statements[2].k = "Print"

\* f(a, ..., a) with 257 arguments, parsed: two errors, a Call with 257
\* arguments
C18_Witness ==
    /\ parser # NoNode
    /\ pc = "parsed"
    /\ run.src.fam = [f |-> "list", kind |-> "call", n |-> 257]
    /\ Len(parser.p.errors) = 2
    /\ parser.p.errors[1].token.pos = <<513>>
    /\ Len(parser.statements[1].expr.arguments) = 257

----------------------------------------------------------------------------
\* C19: for every call of a LoxFunction the interpreter has made, the
\* environment of the call did not exist when the call began and no other
\* call has it, its enclosing environment is the function's closure, and
\* when the body began it held exactly one binding for each parameter, as
\* many as arity() says and as there are arguments, the i-th parameter
\* bound to the i-th argument.
C19_CallEnvironment ==
    \A i \in DOMAIN hist.log :
        hist.log[i].callee.t = "fn" =>
            LET c == hist.log[i]
                fn == fns[c.callee.id]
                params == fn.declaration.params
            IN  /\ "resolver" \in hist.stages /\ run.errors = <<>>
                /\ c.env > c.heap
                /\ \A j \in DOMAIN hist.log : hist.log[j].env = c.env => j = i
                /\ envs[c.env].enclosing = fn.closure
                /\ DOMAIN c.bound = {params[k].lexeme : k \in DOMAIN params}
                /\ Cardinality(DOMAIN c.bound) = arity(c.callee, [fns |-> fns])
                /\ Len(c.arguments) = arity(c.callee, [fns |-> fns])
                /\ \A k \in DOMAIN params : c.bound[params[k].lexeme] = c.arguments[k]

\* fun f(a, b) { if (a) f(false, a); print b; } f(true, 1);  after both
\* calls: the inner one had a = false, b = true, the outer a = true, b = 1,
\* each in an environment of its own under the globals
C19_Witness ==
    /\ run.src.fam = [f |-> "params", kind |-> "recursive"]
    /\ Len(hist.log) = 2
    /\ hist.log[1].bound = ("a" :> Bool(FALSE)) @@ ("b" :> Bool(TRUE))
    /\ hist.log[2].bound = ("a" :> Bool(TRUE)) @@ ("b" :> Num(1))
    /\ hist.log[1].env # hist.log[2].env
    /\ envs[hist.log[1].env].enclosing = GLOBALS
    /\ envs[hist.log[2].env].enclosing = GLOBALS

----------------------------------------------------------------------------
\* The functions declared with a name
Declared(name) == {i \in DOMAIN fns : fns[i].declaration.name.lexeme = name}

\* C20: a function refers to the environment it was declared in, which
\* exists as long as the function does.  Where `a` is "one" when get and set
\* are declared and is then given "two", by the code that declared them or
\* by set, every later call of get prints "two" and so does the declaring
\* code; get and set have the same environment as closure, and that one
\* holds the `a` assigned to.  In the counter, each call of inc finds the
\* count the call before left.
C20_ClosuresCaptureEnvironments ==
    /\ \A i \in DOMAIN fns : fns[i].closure \in DOMAIN envs
    /\ Fam.f = "closure" =>
            /\ Expect(Printed(<<"one", "two", "two", "two">>))
            /\ \A g \in Declared("get"), s \in Declared("set") :
                    /\ fns[g].closure = fns[s].closure
                    /\ Len(out) >= 2 => envs[fns[g].closure].values["a"] = Str("two")
    /\ Fam.f = "counter" => Expect(<<[number |-> 1], [number |-> 2]>>)

\* { var a = "one"; fun get..; fun set..; get(); set("two"); get(); get();
\* print a; } has run: one, two, two, two
C20_Witness ==
    /\ Fam = [f |-> "closure", scope |-> "block", writer |-> "closure"]
    /\ pc = "returned"
    /\ status = "OK"
    /\ out = Printed(<<"one", "two", "two", "two">>)

----------------------------------------------------------------------------
\* The lines of a session that read one global, and the global each reads
Readers == ("print_a" :> "a") @@ ("call_g" :> "g") @@ ("print_A" :> "A")

\* The names the global environment binds
GlobalNames == DOMAIN envs[GLOBALS].values

\* The run ended with LoxRunTimeError "Undefined variable 'name'."
UndefinedAtRuntime(name) ==
    /\ status = "RUNTIME_ERROR"
    /\ hist.err.message = UndefinedVariable(Tok(name, 1)).message

\* C21: the REPL session.  A line whose run() returned, with whatever
\* status (OK, STATIC_ERROR, RUNTIME_ERROR), is followed by the next prompt
\* and the process goes on; between the return of one line and the start of
\* the next nothing of the interpreter changes, and no step ever removes a
\* name from the global environment, so what a line defined, also before
\* its runtime error, is there for every later line: a later line that
\* reads a, g or A fails with "Undefined variable" exactly when no line
\* before it defined the name, and `print a;` prints the value a has.  At
\* the prompt the loop either starts the next run or ends: with the empty
\* line (exit code 0) or with the end of the input (EOFError, exit code 1).
C21_ReplSession ==
    /\ [](/\ (mode = "prompt" /\ pc = "returned" /\ Fam.f = "ok"
                 /\ Fam.kind \in DOMAIN Readers)
              => (Readers[Fam.kind] \in GlobalNames
                     <=> ~UndefinedAtRuntime(Readers[Fam.kind]))
          /\ (mode = "prompt" /\ pc = "returned" /\ Fam = [f |-> "ok", kind |-> "print_a"]
                 /\ "a" \in GlobalNames)
              => /\ status = "OK"
                 /\ out = <<stringify(envs[GLOBALS].values["a"],
                                      [fns |-> fns, classes |-> classes,
                                       insts |-> insts])>>)
    /\ [][/\ GlobalNames \subseteq DOMAIN envs'[GLOBALS].values
          /\ (pc = "returned" /\ mode = "prompt")
                => /\ pc' = "prompt"
                   /\ exit' = -1
                   /\ UNCHANGED <<envs, fns, classes, insts, env, locals>>
          /\ (pc = "prompt" /\ mode = "prompt")
                => /\ UNCHANGED <<envs, fns, classes, insts, env, locals>>
                   /\ \/ pc' = "parsed" /\ nruns' = nruns + 1 /\ exit' = -1
                      \/ pc' = "exited" /\ exit' \in {0, 1}]_vars

\* The first line defined a, g and A and then ended in a runtime error; the
\* second line, `print A;`, has printed the class
C21_Witness ==
    /\ mode = "prompt"
    /\ nruns = 2
    /\ Fam = [f |-> "ok", kind |-> "print_A"]
    /\ pc = "returned"
    /\ status = "OK"
    /\ out = Printed(<<"A">>)
    /\ {"a", "g", "A", "x"} \subseteq GlobalNames
    /\ "after" \notin GlobalNames

----------------------------------------------------------------------------
\* The classes from c up its chain of superclasses, nearest first
RECURSIVE Superclasses(_)
Superclasses(c) ==
    IF c = 0 THEN <<>> ELSE <<c>> \o Superclasses(classes[c].superclass)

\* The init of the nearest class on the chain of c that defines one, 0 if
\* none does
NearestInit(c) ==
    LET defining == {k \in DOMAIN Superclasses(c) : "init" \in DOMAIN classes[Superclasses(c)[k]].methods}
    IN  IF defining = {} THEN 0
        ELSE classes[Superclasses(c)[CHOOSE k \in defining : \A l \in defining : k <= l]]
                .methods["init"]

\* C22: every call of a class that was made (the arity check passed) made
\* one new instance of that class, different for every call.  Where no class
\* on the chain defines init the call had no arguments, made no call and
\* returned the instance without fields.  Where one does, the call had as
\* many arguments as the nearest init has parameters, and the last call made
\* within it was that of a copy of this init (same declaration, initializer)
\* whose closure binds exactly `this` to the new instance over the closure
\* of the init, with the arguments of the class call.  Whenever the class
\* call returned, it returned the new instance.  C, whose init is the one of
\* A two classes up, has arity 1: called with 0 or 2 arguments it is not
\* called but "Expected 1 arguments" is raised.
C22_ClassCall ==
    /\ (Fam.f = "inherited" /\ Fam.nargs # 1 /\ pc = "returned")
          => /\ status = "RUNTIME_ERROR"
             /\ hist.err.message = [msg |-> "Expected {arity} arguments but got {nb_args}.",
                                    arity |-> 1, nb_args |-> Fam.nargs]
    /\ \A i \in DOMAIN hist.log :
        (hist.log[i].callee.t = "class" /\ hist.log[i].body # "cut") =>
            LET c == hist.log[i]
                new == c.instances + 1
                init == NearestInit(c.callee.id)
            IN  /\ new \in DOMAIN insts
                /\ insts[new].cls = c.callee.id
                /\ \A j \in DOMAIN hist.log :
                      (j # i /\ hist.log[j].callee.t = "class")
                         => hist.log[j].instances # c.instances
                /\ c.sig = "ok" => c.val = InstVal(new)
                /\ IF init = 0
                   THEN /\ c.arguments = <<>>
                        /\ c.calls = i - 1
                        /\ c.fields = NoValues
                        /\ c.sig = "ok"
                   ELSE /\ Len(c.arguments) = Len(fns[init].declaration.params)
                        /\ c.calls < i - 1
                        /\ hist.log[i - 1].callee.t = "fn"
                        /\ LET b == hist.log[i - 1]
                               f == fns[b.callee.id]
                           IN  /\ f.declaration = fns[init].declaration
                               /\ f.is_initializer
                               /\ envs[f.closure].values = ("this" :> InstVal(new))
                               /\ envs[f.closure].enclosing = fns[init].closure
                               /\ b.arguments = c.arguments
                               /\ b.sig = c.sig
                               /\ b.sig = "ok" => b.val = InstVal(new)

\* class A { init(n) { this.n = n; } } class B < A { m() {} } class C < B {}
\* ... var c = C(7); print c.n;  has printed 7: the init of A ran on the
\* instance of C
C22_Witness ==
    /\ Fam = [f |-> "inherited", nargs |-> 1]
    /\ pc = "returned"
    /\ status = "OK"
    /\ out = <<Line("own"), [number |-> 7]>>
    /\ \E i \in DOMAIN hist.log :
          /\ hist.log[i].callee.t = "class"
          /\ classes[hist.log[i].callee.id].name = "C"
          /\ hist.log[i].arguments = <<Num(7)>>
          /\ classes[insts[hist.log[i].val.id].cls].name = "C"
          /\ insts[hist.log[i].val.id].fields = ("n" :> Num(7))

----------------------------------------------------------------------------
\* The values Lox takes for false: nil and false, nothing else (0 and the
\* empty string are true)
Falsy == {Nil, Bool(FALSE)}

\* The calls made of the functions declared with a name
CallsOf(name) ==
    {i \in DOMAIN hist.log : /\ hist.log[i].callee.t = "fn"
                             /\ hist.log[i].callee.id \in Declared(name)}

\* C23: logical operators short-circuit and give operand values.  Where l()
\* prints l and returns a, and r() prints r and returns b, `print l() or r();`
\* prints l and a and never calls r when a is not falsy, and prints l, r and
\* b otherwise; `print l() and r();` prints l and a and never calls r when a
\* is falsy, and prints l, r and b otherwise.  What is printed is the
\* operand's value itself (0, the empty string, nil, 1), never its truth.
C23_LogicalOperators ==
    Fam.f = "logical" =>
        LET a == LogicalValue(Fam.a)
            b == LogicalValue(Fam.b)
            state == [fns |-> fns, classes |-> classes, insts |-> insts]
            left == (Fam.oper = "or") = (a \notin Falsy)
        IN  /\ Expect(IF left THEN <<Line("l"), stringify(a, state)>>
                      ELSE <<Line("l"), Line("r"), stringify(b, state)>>)
            /\ Cardinality(CallsOf("l")) <= 1
            /\ Cardinality(CallsOf("r")) <= 1
            /\ left => CallsOf("r") = {}
            /\ (~left /\ pc = "returned") => Cardinality(CallsOf("r")) = 1

\* print l() and r();  where l() returns 0 and r() returns nil has printed
\* l, r, nil: 0 is true, r was called and its value is the result
C23_Witness ==
    /\ Fam = [f |-> "logical", oper |-> "and", a |-> "zero", b |-> "nil"]
    /\ pc = "returned"
    /\ status = "OK"
    /\ out = <<Line("l"), Line("r"), Line("nil")>>
    /\ Cardinality(CallsOf("r")) = 1

\* print l() or r();  where l() returns the empty string has printed l and
\* the empty string, and r was not called
C23_WitnessOr ==
    /\ Fam = [f |-> "logical", oper |-> "or", a |-> "empty", b |-> "one"]
    /\ pc = "returned"
    /\ status = "OK"
    /\ out = <<Line("l"), Line("")>>
    /\ CallsOf("r") = {}

----------------------------------------------------------------------------
\* The line print writes for a bool
PrintedBool(b) == Line(IF b THEN "true" ELSE "false")

\* The values the operands of EqualSrc have once the program has made them
EqualObject(v) ==
    CASE v \in {"nil", "false", "true", "zero", "one", "string", "digit"}
            -> EqualValue(v).value
      [] v = "clock" -> ClockVal
      [] v = "class" -> envs[GLOBALS].values["K"]
      [] v = "instance" -> envs[GLOBALS].values["o"]
      [] v = "other" -> envs[GLOBALS].values["p"]

\* C24: equality.  Among nil, false, true, 0, 1, "s", "1", clock, the class K
\* and two instances of K, `x == y` is true exactly when x and y are the same
\* one of them: nil equals nil and nothing else, a number never equals a
\* bool (1 and true, 0 and false included) nor the string of its digits;
\* `y == x` prints what `x == y` prints, and `x != y` the opposite.  On the
\* values themselves is_equal gives the same answers in both orders.
C24_Equality ==
    Fam.f = "equal" =>
        /\ Expect(<<PrintedBool(Fam.x = Fam.y), PrintedBool(Fam.x # Fam.y),
                    PrintedBool(Fam.x = Fam.y), PrintedBool(Fam.x # Fam.y)>>)
        /\ {"K", "o", "p"} \subseteq GlobalNames
              => /\ is_equal(EqualObject(Fam.x), EqualObject(Fam.y)) = (Fam.x = Fam.y)
                 /\ is_equal(EqualObject(Fam.y), EqualObject(Fam.x)) = (Fam.x = Fam.y)
                 /\ is_equal(Nil, EqualObject(Fam.x)) = (Fam.x = "nil")
                 /\ is_equal(EqualObject(Fam.x), Nil) = (Fam.x = "nil")

\* print 1 == true; print 1 != true; print true == 1; print true != 1;  has
\* printed false, true, false, true
C24_Witness ==
    /\ Fam = [f |-> "equal", x |-> "one", y |-> "true"]
    /\ pc = "returned"
    /\ status = "OK"
    /\ out = Printed(<<"false", "true", "false", "true">>)

----------------------------------------------------------------------------
(* The tree the precedence ladder gives a chain x1 o1 x2 ... xn, stated     *)
(* without the parser: the chain is split at its loosest operator, at the   *)
(* first one when that is `=` (to the right) and at the last one otherwise  *)
(* (to the left), and both parts are treated in the same way.               *)

\* The level of an operator on the ladder, loosest first
LadderLevel(o) ==
    CASE o = "=" -> 0
      [] o = "or" -> 1
      [] o = "and" -> 2
      [] o \in {"==", "!="} -> 3
      [] o \in {"<", "<=", ">", ">="} -> 4
      [] o \in {"+", "-"} -> 5
      [] o \in {"*", "/"} -> 6

\* The place in the text of the first token of the i-th operand
RECURSIVE OperandStart(_, _)
OperandStart(chain, i) ==
    IF i = 1 THEN 1
    ELSE OperandStart(chain, i - 1) + Len(chain.operands[i - 1]) + 1

\* The place in the text of the i-th operator
OperatorPlace(chain, i) == OperandStart(chain, i) + Len(chain.operands[i])

\* An operand: prefix operators from the outside in, then a name or a
\* number, then its calls and properties from the inside out
RECURSIVE Postfix(_, _, _, _)
Postfix(text, lo, hi, expr) ==
    IF lo > hi THEN expr
    ELSE IF text[lo] = "("
    THEN Postfix(text, lo + 2, hi, Call(expr, Token(text[lo + 1], lo + 1, 1), <<>>))
    ELSE Postfix(text, lo + 2, hi, Get(expr, Token(text[lo + 1], lo + 1, 1)))

RECURSIVE OperandTree(_, _, _)
OperandTree(text, lo, hi) ==
    IF text[lo] \in {"-", "!"}
    THEN Unary(Token(text[lo], lo, 1), OperandTree(text, lo + 1, hi))
    ELSE Postfix(text, lo + 1, hi,
                 IF text[lo] \in DOMAIN Numerals
                 THEN Literal(Token(text[lo], lo, 1).literal)
                 ELSE Variable(Token(text[lo], lo, 1)))

\* The operator the operands i..j are split at
SplitAt(chain, i, j) ==
    LET loosest == CHOOSE k \in i..(j - 1) :
                      \A l \in i..(j - 1) : LadderLevel(chain.operators[k])
                                               <= LadderLevel(chain.operators[l])
        same == {k \in i..(j - 1) : LadderLevel(chain.operators[k])
                                       = LadderLevel(chain.operators[loosest])}
    IN  IF chain.operators[loosest] = "="
        THEN CHOOSE k \in same : \A l \in same : k <= l
        ELSE CHOOSE k \in same : \A l \in same : k >= l

RECURSIVE LadderTree(_, _, _, _)
LadderTree(chain, text, i, j) ==
    IF i = j
    THEN OperandTree(text, OperandStart(chain, i), OperatorPlace(chain, i) - 1)
    ELSE LET k == SplitAt(chain, i, j)
             operator == Token(chain.operators[k], OperatorPlace(chain, k), 1)
             left == LadderTree(chain, text, i, k)
             right == LadderTree(chain, text, k + 1, j)
         IN  IF operator.lexeme = "="
             THEN IF left.k = "Get" THEN Set(left.object, left.name, right)
                  ELSE Assign(left.name, right)
             ELSE IF operator.lexeme \in {"or", "and"}
             THEN Logical(left, operator, right)
             ELSE Binary(left, operator, right)

\* The chain is an expression: what is left of each `=` is one operand that
\* is a name or a property
RECURSIVE WellFormed(_, _, _, _)
WellFormed(chain, text, i, j) ==
    IF i = j THEN TRUE
    ELSE LET k == SplitAt(chain, i, j)
         IN  /\ chain.operators[k] = "="
                   => /\ k = i
                      /\ LadderTree(chain, text, i, i).k \in {"Variable", "Get"}
             /\ WellFormed(chain, text, i, k)
             /\ WellFormed(chain, text, k + 1, j)

\* C25: the expression grammar.  For every chain of operands (names,
\* numbers, with prefix operators, calls and properties) and operators of
\* the seven levels that is a well-formed expression, expression() consumes
\* the whole chain without error and builds the tree of the ladder: the
\* chain split at its loosest operator, at the last such operator for the
\* binary and logical levels (they associate to the left) and at the first
\* `=` (assignment associates to the right), prefix operators binding
\* tighter than any binary operator and looser than calls and properties.
C25_ExpressionGrammar ==
    (parser # NoNode /\ run.src.fam.f = "ladder") =>
        LET chain == run.src.fam.chain
            n == Len(chain.operands)
            Built(p1) ==
                /\ p1.sig = "ok"
                /\ p1.errors = <<>>
                /\ peek(p1).lexeme = ";"
                /\ p1.val = LadderTree(chain, run.src.text, 1, n)
        IN  WellFormed(chain, run.src.text, 1, n) =>
                /\ Built(expression(Parser(parser.p.tokens)))
                /\ pc = "parsed" =>
                      /\ parser.p.errors = <<>>
                      /\ parser.statements =
                            <<Expression(LadderTree(chain, run.src.text, 1, n))>>

\* a + b * c == d ;  parsed to (== (+ a (* b c)) d)
C25_Witness ==
    /\ parser # NoNode
    /\ pc = "parsed"
    /\ run.src.text = <<"a", "+", "b", "*", "c", "==", "d", ";">>
    /\ parser.p.errors = <<>>
    /\ Len(parser.statements) = 1
    /\ parser.statements[1].expr.k = "Binary"
    /\ parser.statements[1].expr.operator.lexeme = "=="
    /\ parser.statements[1].expr.left.operator.lexeme = "+"
    /\ parser.statements[1].expr.left.right.operator.lexeme = "*"
    /\ parser.statements[1].expr.left.right.left = Variable(Token("b", 3, 1))
    /\ parser.statements[1].expr.right = Variable(Token("d", 7, 1))

\* a - b - c ;  parsed to (- (- a b) c)  and  a = b = c ;  to (= a (= b c))
C25_WitnessAssociativity ==
    /\ parser # NoNode
    /\ pc = "parsed"
    /\ Len(parser.statements) = 1
    /\ \/ /\ run.src.text = <<"a", "-", "b", "-", "1", ";">>
          /\ parser.statements[1].expr.left.k = "Binary"
          /\ parser.statements[1].expr.right.k = "Literal"
       \/ /\ run.src.text = <<"a", "=", "b", "=", "1", ";">>
          /\ parser.statements[1].expr.k = "Assign"
          /\ parser.statements[1].expr.value.k = "Assign"

----------------------------------------------------------------------------
\* C26: every bind(instance) made in the run returned a function that did
\* not exist before, with the declaration and the is_initializer flag of the
\* function bound; its closure is an environment that did not exist before,
\* which binds `this` to the instance and nothing else, now as then, and
\* whose enclosing environment is the closure of the function bound.  The
\* bind changed neither the function bound nor the bindings of its closure,
\* and the function bound is still what it was.  Two binds of one function
\* gave two functions with two environments over the same closure, each with
\* its own `this`.  With m bound to o and to p, mo() is o and mp() is p,
\* before and after the other is called.
C26_Bind ==
    /\ \A i \in DOMAIN hist.binds :
          LET b == hist.binds[i]
          IN  /\ b.result > b.fns
              /\ b.result \in DOMAIN fns
              /\ fns[b.result].declaration = b.before.fn.declaration
              /\ fns[b.result].is_initializer = b.before.fn.is_initializer
              /\ fns[b.result].closure > b.envs
              /\ envs[fns[b.result].closure].values = ("this" :> b.instance)
              /\ envs[fns[b.result].closure].enclosing = b.before.fn.closure
              /\ b.after = b.before
              /\ fns[b.f] = b.before.fn
              /\ \A j \in DOMAIN hist.binds :
                    j # i => /\ hist.binds[j].result # b.result
                             /\ fns[hist.binds[j].result].closure # fns[b.result].closure
    /\ Fam.f = "bind" => Expect(Printed(<<"true", "true", "false", "true">>))

\* o.m and p.m were bound from the same method, and all four lines are out
C26_Witness ==
    /\ Fam.f = "bind"
    /\ pc = "returned"
    /\ status = "OK"
    /\ out = Printed(<<"true", "true", "false", "true">>)
    /\ \E i, j \in DOMAIN hist.binds :
          /\ hist.binds[i].f = hist.binds[j].f
          /\ hist.binds[i].instance # hist.binds[j].instance
          /\ hist.binds[i].result # hist.binds[j].result
          /\ envs[fns[hist.binds[i].result].closure].enclosing
                = envs[fns[hist.binds[j].result].closure].enclosing

----------------------------------------------------------------------------
\* The functions a class holds as its methods
MethodsOf(c) == {classes[c].methods[m] : m \in DOMAIN classes[c].methods}

\* C27: class declaration at runtime.  The superclass of every class there
\* is is none or a class made before it.  Every class declaration that
\* completed left the interpreter in the environment it began in, with the
\* name of the class bound there to the class; the methods of a class with a
\* superclass all have as closure one environment made by the declaration,
\* which binds `super` to the superclass and nothing else and whose
\* enclosing environment is the one the class was declared in; the methods
\* of a class without superclass have the declaring environment as closure.
\* Where the superclass expression gave nil, a string, a number, a native
\* function or an instance, the run ended with "Superclass must be a class."
\* raised at the superclass name; no class B was made and no environment
\* binds B: the block's environment holds y alone.
C27_ClassDeclaration ==
    /\ \A c \in DOMAIN classes : classes[c].superclass \in 0..(c - 1)
    /\ \A i \in DOMAIN hist.decls :
          LET d == hist.decls[i]
          IN  /\ d.after = d.env
              /\ d.value = ClassVal(d.cls)
              /\ classes[d.cls].name = d.name
              /\ \A f \in MethodsOf(d.cls) :
                    IF classes[d.cls].superclass = 0
                    THEN fns[f].closure = d.env
                    ELSE /\ fns[f].closure > d.envs
                         /\ envs[fns[f].closure].values
                               = ("super" :> ClassVal(classes[d.cls].superclass))
                         /\ envs[fns[f].closure].enclosing = d.env
              /\ \A f, g \in MethodsOf(d.cls) : fns[f].closure = fns[g].closure
    /\ Fam.f = "superclass" =>
          IF Fam.v = "class" THEN Expect(Printed(<<"A", "after">>))
          ELSE /\ out = <<>>
               /\ \A c \in DOMAIN classes : classes[c].name # "B"
               /\ \A e \in DOMAIN envs : "B" \notin DOMAIN envs[e].values
               /\ \A e \in DOMAIN envs :
                     "y" \in DOMAIN envs[e].values => envs[e].values = ("y" :> Num(1))
               /\ pc = "returned" =>
                     /\ status = "RUNTIME_ERROR"
                     /\ hist.err.message = Msg("Superclass must be a class.")
                     /\ hist.err.token.lexeme = "x"
                     /\ \E e \in DOMAIN envs : "y" \in DOMAIN envs[e].values

\* { var y = 1; class B < x { ... } print B().m(); }  with x the class A has
\* run: B was declared in the block's environment, its methods closed over
\* an environment holding `super`
C27_Witness ==
    /\ Fam = [f |-> "superclass", v |-> "class"]
    /\ pc = "returned"
    /\ status = "OK"
    /\ \E i \in DOMAIN hist.decls :
          /\ hist.decls[i].name = "B"
          /\ hist.decls[i].env # GLOBALS
          /\ envs[hist.decls[i].env].values = ("y" :> Num(1))
                                               @@ ("B" :> ClassVal(hist.decls[i].cls))
          /\ Cardinality(MethodsOf(hist.decls[i].cls)) = 2

\* class B < x {}  with x an instance of A ended in the runtime error
C27_WitnessError ==
    /\ Fam = [f |-> "superclass", v |-> "instance"]
    /\ pc = "returned"
    /\ status = "RUNTIME_ERROR"
    /\ Len(classes) = 1
    /\ Len(insts) = 1

----------------------------------------------------------------------------
\* The parser of the run's tokens, placed before the k-th token
ParserAt(k) == [Parser(parser.p.tokens) EXCEPT !.current = k - 1]

\* The places in ForText of the clauses and of the body
ForPlace(part) ==
    LET fam == run.src.fam
        initializer == Len(ForHead) + 1
        condition == initializer + Len(ForPiece("initializer", fam.initializer))
        increment == condition + Len(ForPiece("condition", fam.condition)) + 1
    IN  CASE part = "initializer" -> initializer
          [] part = "condition" -> condition
          [] part = "increment" -> increment
          [] part = "body" -> increment + Len(ForPiece("increment", fam.increment)) + 1

\* The clauses and the body, each parsed on its own
ForPart(part) ==
    LET fam == run.src.fam
    IN  CASE part = "initializer" ->
                (CASE fam.initializer = "none" -> NoNode
                   [] fam.initializer = "var" ->
                        var_declaration(ParserAt(ForPlace(part) + 1)).val
                   [] fam.initializer = "expression" ->
                        expression_statement(ParserAt(ForPlace(part))).val)
          [] part = "condition" ->
                IF fam.condition THEN expression(ParserAt(ForPlace(part))).val ELSE NoNode
          [] part = "increment" ->
                IF fam.increment THEN expression(ParserAt(ForPlace(part))).val ELSE NoNode
          [] part = "body" -> statement(ParserAt(ForPlace(part))).val

\* What the statements print when they are resolved and interpreted
Running(stmts) ==
    LET Interpreted(rs) == interpret(stmts, [State EXCEPT !.locals = rs.locals])
    IN  Interpreted(Resolver_resolve(stmts, 1, Resolver(locals, occ)))

\* C28: the desugaring of `for`.  for_statement gives a While whose
\* condition is the condition clause, or the literal true when there is
\* none, and whose body is the body, or a Block of the body and then the
\* increment as an Expression statement when there is an increment; with an
\* initializer this While is the second statement of a Block that begins
\* with the initializer, and without one it stands alone.  No error is
\* recorded.  Run after `var i = 's';`, the loop with `var i = 0`, `i < 2`
\* and `i = i + 1` prints 0 and 1 and leaves the outer i as it was; with the
\* initializer `i = 0` it is the outer i that has become 2.
C28_ForDesugaring ==
    (parser # NoNode /\ pc = "parsed" /\ run.src.fam.f = "for") =>
        LET fam == run.src.fam
            loop == While(IF fam.condition THEN ForPart("condition")
                          ELSE Literal(Bool(TRUE)),
                          IF fam.increment
                          THEN Block(<<ForPart("body"), Expression(ForPart("increment"))>>)
                          ELSE ForPart("body"))
        IN  /\ parser.p.errors = <<>>
            /\ Len(parser.statements) = 3
            /\ parser.statements[2] = IF fam.initializer = "none" THEN loop
                                      ELSE Block(<<ForPart("initializer"), loop>>)
            /\ (fam.condition /\ fam.increment /\ fam.initializer # "none")
                  => /\ Running(parser.statements).sig = "ok"
                     /\ Running(parser.statements).out =
                           <<[number |-> 0], [number |-> 1],
                             IF fam.initializer = "var" THEN Line("'s'")
                             ELSE [number |-> 2]>>

\* var i = 's'; for (var i = 0; i < 2; i = i + 1) { print i; } print i;  is
\* parsed: Block([Var, While(cond, Block([Block, Expression(Assign)]))])
C28_Witness ==
    /\ parser # NoNode
    /\ pc = "parsed"
    /\ run.src.fam = [f |-> "for", initializer |-> "var", condition |-> TRUE,
                      increment |-> TRUE, body |-> "block"]
    /\ parser.p.errors = <<>>
    /\ parser.statements[2].k = "Block"
    /\ parser.statements[2].statements[1].k = "Var"
    /\ parser.statements[2].statements[2].k = "While"
    /\ parser.statements[2].statements[2].condition.k = "Binary"
    /\ parser.statements[2].statements[2].body.statements[1].k = "Block"
    /\ parser.statements[2].statements[2].body.statements[2].expr.k = "Assign"

\* for (;;) print i;  is parsed: While(Literal(true), Print) on its own
C28_WitnessBare ==
    /\ parser # NoNode
    /\ pc = "parsed"
    /\ run.src.fam = [f |-> "for", initializer |-> "none", condition |-> FALSE,
                      increment |-> FALSE, body |-> "print"]
    /\ parser.statements[2].k = "While"
    /\ parser.statements[2].condition = Literal(Bool(TRUE))
    /\ parser.statements[2].body.k = "Print"

----------------------------------------------------------------------------
\* The lines printed so far
PrintedLines == {out[i] : i \in DOMAIN out}

\* C29: whenever a statement of interpret() has ended, normally or with a
\* LoxRunTimeError, the interpreter's environment is the global one.  A run
\* that ended in a runtime error executed nothing after the failing
\* statement: run() returns from there, "dead" and "after" are never
\* printed, and what was done before the error stays: in the program whose
\* error is raised under a block, a call of f, a block, a call of o.m and a
\* block, a is still defined and holds "assigned", o has its field f and K,
\* o and f are defined.  The next line of the session is run in the global
\* scope: `var a = "defined";` after any first line leaves the global a at
\* "defined".
C29_GlobalScopeAfterInterpret ==
    /\ [](/\ env = GLOBALS
          /\ status = "RUNTIME_ERROR" =>
                /\ pc \in {"returned", "prompt", "exited"}
                /\ run.i <= Len(run.stmts)
                /\ Line("after") \notin PrintedLines
                /\ Line("dead") \notin PrintedLines
          /\ Fam.f = "deeperror" =>
                /\ out = <<>>
                /\ run.i <= 5
                /\ (pc = "returned" \/ run.i = 5) =>
                      /\ {"a", "K", "o", "f"} \subseteq GlobalNames
                      /\ "d" \notin GlobalNames
                /\ pc = "returned" =>
                      /\ status = "RUNTIME_ERROR"
                      /\ run.i = 5
                      /\ envs[GLOBALS].values["a"] = Str("assigned")
                      /\ insts[envs[GLOBALS].values["o"].id].fields
                            = ("f" :> Str("written"))
                      /\ \E e \in DOMAIN envs : envs[e].values = ("d" :> Str("local"))
          /\ (nruns = 2 /\ Fam = [f |-> "ok", kind |-> "def_a"] /\ pc = "returned")
                => /\ status = "OK"
                   /\ envs[GLOBALS].values["a"] = Str("defined"))
    /\ [][status = "RUNTIME_ERROR" =>
             UNCHANGED <<envs, fns, classes, insts, env, locals, out>>
             \/ (pc = "prompt" /\ pc' = "parsed")]_vars

\* The session's first line ended in a runtime error five levels down; the
\* second line, var a = "defined";, has redefined the global a
C29_Witness ==
    /\ mode = "prompt"
    /\ nruns = 2
    /\ Fam = [f |-> "ok", kind |-> "def_a"]
    /\ pc = "returned"
    /\ status = "OK"
    /\ env = GLOBALS
    /\ envs[GLOBALS].values["a"] = Str("defined")
    /\ "o" \in GlobalNames
    /\ insts[envs[GLOBALS].values["o"].id].fields = ("f" :> Str("written"))
    /\ \E e \in DOMAIN envs : envs[e].values = ("d" :> Str("local"))
    /\ \A c \in DOMAIN classes : classes[c].name # "B"

\* The first line has just ended in its runtime error, back in the globals
C29_WitnessError ==
    /\ Fam = [f |-> "deeperror", kind |-> "negate"]
    /\ pc = "returned"
    /\ status = "RUNTIME_ERROR"
    /\ env = GLOBALS
    /\ Len(envs) > 3

\* The index, counted from 0 as `current` is, of the EOF token
IndexOfEOF == Len(parser.p.tokens) - 1

\* The turns of the loops of block() and class_declaration() so far
LoopTurns == {parser.p.turns[i] : i \in 1..Len(parser.p.turns)}

\* The declaration() calls so far that caught a parse error and synchronized
Synchronized == {parser.p.log[i] : i \in 1..Len(parser.p.log)}

\* The turns of the loop of parse() so far: each gave a statement or caught
\* a parse error in the declaration() that parse() called
ParseTurns ==
    Len(parser.statements)
        + Cardinality({i \in 1..Len(parser.p.log) : parser.p.log[i].depth = 1})

\* C30: progress and termination of the parser.  The token list ends with
\* its only EOF token.  The cursor stays between 0 and the index of EOF and
\* no step of parse() lowers it; advance() at EOF leaves the parser as it is.
\* Every turn of the loop of parse() consumes at least one token, and so do
\* every turn of the loop of block() and every declaration() that caught a
\* parse error and ran synchronize(); a turn of the loop of
\* class_declaration() consumes at least one token or ends the loop with the
\* parse error it raised.  parse() terminates: its loop has taken no more
\* turns than the cursor counts, which the index of EOF bounds, and at EOF
\* the only step is its return.
C30_ParserProgress ==
    /\ [](parser # NoNode =>
            /\ \A i \in 1..Len(parser.p.tokens) :
                  (parser.p.tokens[i].type = "EOF") <=> (i = IndexOfEOF + 1)
            /\ 0 <= parser.p.current
            /\ parser.p.current <= IndexOfEOF
            /\ advance(parser.p).current <= IndexOfEOF
            /\ is_at_end(parser.p) => advance(parser.p) = parser.p
            /\ \A turn \in LoopTurns :
                  /\ 0 <= turn.start
                  /\ turn.start <= turn.end
                  /\ turn.end <= parser.p.current
                  /\ \/ turn.start < turn.end
                     \/ turn.loop = "class_declaration" /\ turn.sig = "error"
            /\ \A caught \in Synchronized : caught.start < caught.end
            /\ ParseTurns <= parser.p.current
            /\ pc \in {"parse", "parsed"}
            /\ pc = "parsed" => is_at_end(parser.p))
    /\ [][parser # NoNode =>
            /\ parser'.p.current >= parser.p.current
            /\ (pc = "parse" /\ ~is_at_end(parser.p))
                  => parser'.p.current > parser.p.current
            /\ (pc = "parse" /\ is_at_end(parser.p)) => pc' = "parsed"]_vars

\* class A { m() { ); var a; } } is parsed to its end: a turn of the loop of
\* block() raised a parse error at `)`, synchronized after `;` and the loop
\* went on with `var a;`
C30_Witness ==
    /\ parser # NoNode
    /\ pc = "parsed"
    /\ is_at_end(parser.p)
    /\ parser.p.current = IndexOfEOF
    /\ parser.p.errors # <<>>
    /\ \E turn \in LoopTurns, caught \in Synchronized, next \in LoopTurns :
          /\ turn.loop = "block"
          /\ caught.start = turn.start
          /\ caught.end = turn.end
          /\ next.loop = "block"
          /\ next.start = turn.end
    /\ \E turn \in LoopTurns : turn.loop = "class_declaration" /\ turn.sig = "ok"

\* class A { var a; } is parsed to its end: the turn of the loop of
\* class_declaration() raised a parse error at `var` with no token consumed,
\* which ended the loop, and synchronize() consumed `var`
C30_WitnessClass ==
    /\ parser # NoNode
    /\ pc = "parsed"
    /\ is_at_end(parser.p)
    /\ \E turn \in LoopTurns, caught \in Synchronized :
          /\ turn.loop = "class_declaration"
          /\ turn.sig = "error"
          /\ turn.start = turn.end
          /\ caught.start < turn.start
          /\ caught.end > turn.end

====
